---- MODULE Spec2Model ----
(***************************************************************************)
(* NanoScript compiler: lexer -> parser -> LLVM IR generator, and the      *)
(* execution of the generated module.                                      *)
(*                                                                         *)
(* A C++ std::string is a sequence of one-character strings, so that the   *)
(* lexer scans characters and the parser converts digit strings.           *)
(***************************************************************************)
EXTENDS Integers, Sequences, FiniteSets, TLC

VARIABLES
    pc,          \* position of the driver (main) and of the run of the binary
    source,      \* main: source text
    config,      \* Codegen::config_  (BuildConfig)
    wasm,        \* Codegen::wasm_
    tokens,      \* result of Lexer::tokenize
    ast,         \* result of Parser::parse (ProgramNode)
    error,       \* the exception caught by main, NoError when none
    variables_,  \* Codegen::variables_ : name -> alloca
    blocks,      \* basic blocks of main, in creation order
    insertBB,    \* builder_.GetInsertBlock()
    curLoc,      \* builder_'s current debug location
    nextId,      \* next SSA value number
    declares,    \* dbg.declare records made by insertDeclare
    globals,     \* global symbols of module_
    work,        \* statements genStatement has still to visit (the call stack)
    steps,       \* the stages of Codegen::generate completed, in order
    written,     \* writeIR has written the .ll file
    linked,      \* linkArtifact was invoked
    xBlock,      \* run of the binary: current basic block
    regs,        \* run of the binary: SSA values
    mem,         \* run of the binary: content of the stack slots
    output,      \* run of the binary: values printed by printf
    visited      \* run of the binary: blocks entered, in order

vars == <<pc, source, config, wasm, tokens, ast, error, variables_, blocks,
          insertBB, curLoc, nextId, declares, globals, work, steps, written,
          linked, xBlock, regs, mem, output, visited>>

(***************************************************************************)
(* Characters                                                              *)
(***************************************************************************)
NUL == "NUL"   \* the '\0' that Lexer::peek returns past the end

Digits == <<"0", "1", "2", "3", "4", "5", "6", "7", "8", "9">>

IsDigit(c) == \E i \in 1..Len(Digits) : Digits[i] = c

DigitValue(c) == (CHOOSE i \in 1..Len(Digits) : Digits[i] = c) - 1

IsAlpha(c) ==
    c \in {"a", "b", "c", "d", "e", "f", "g", "h", "i", "j", "k", "l", "m",
           "n", "o", "p", "q", "r", "s", "t", "u", "v", "w", "x", "y", "z",
           "A", "B", "X", "Y", "Z"}

IsAlnum(c) == IsAlpha(c) \/ IsDigit(c)

IsSpace(c) == c \in {" ", "\t", "\n", "\r"}

(***************************************************************************)
(* Lexer (lexer.cpp).  L is the lexer object: [pos, line, col]; pos is the *)
(* number of characters consumed, as pos_ in the code.                     *)
(***************************************************************************)
LexerInit == [pos |-> 0, line |-> 1, col |-> 1]

LexPeek(src, L, offset) ==
    IF L.pos + offset < Len(src) THEN src[L.pos + offset + 1] ELSE NUL

\* (an advance that counts a newline as one more column)
LexAdvanceSameLine(src, L) == [pos |-> L.pos + 1, line |-> L.line, col |-> L.col + 1]

LexAdvance(src, L) ==
    IF src[L.pos + 1] = "\n"
    THEN [pos |-> L.pos + 1, line |-> L.line + 1, col |-> 1]
    ELSE [pos |-> L.pos + 1, line |-> L.line, col |-> L.col + 1]

\* (a comment skip that consumes the two slashes only)
SkipCommentSlashesOnly(src, L) == LexAdvanceSameLine(src, LexAdvanceSameLine(src, L))

RECURSIVE SkipComment(_, _)
SkipComment(src, L) ==
    IF L.pos < Len(src) /\ LexPeek(src, L, 0) # "\n"
    THEN SkipComment(src, LexAdvance(src, L))
    ELSE L

RECURSIVE SkipWhitespaceAndComments(_, _)
SkipWhitespaceAndComments(src, L) ==
    IF L.pos < Len(src)
    THEN IF IsSpace(LexPeek(src, L, 0))
         THEN SkipWhitespaceAndComments(src, LexAdvance(src, L))
         ELSE IF LexPeek(src, L, 0) = "/" /\ LexPeek(src, L, 1) = "/"
              THEN SkipWhitespaceAndComments(src, SkipComment(src, L))
              ELSE L
    ELSE L

Token(type, value, line, col) ==
    [type |-> type, value |-> value, line |-> line, col |-> col]

\* the scanning loops of lexNumber and lexIdentifierOrKeyword: [text, L]
RECURSIVE ScanDigits(_, _, _)
ScanDigits(src, L, num) ==
    IF L.pos < Len(src) /\ IsDigit(LexPeek(src, L, 0))
    THEN ScanDigits(src, LexAdvance(src, L), Append(num, src[L.pos + 1]))
    ELSE [text |-> num, L |-> L]

RECURSIVE ScanIdent(_, _, _)
ScanIdent(src, L, ident) ==
    IF L.pos < Len(src) /\ (IsAlnum(LexPeek(src, L, 0)) \/ LexPeek(src, L, 0) = "_")
    THEN ScanIdent(src, LexAdvance(src, L), Append(ident, src[L.pos + 1]))
    ELSE [text |-> ident, L |-> L]

LexNumber(src, L) ==
    LET s == ScanDigits(src, L, <<>>)
    IN  [tok |-> Token("INT_LITERAL", s.text, L.line, L.col), L |-> s.L]

KeywordType(ident) ==
    IF ident = <<"o", "u", "t">> THEN "OUT"
    ELSE IF ident = <<"i", "f">> THEN "IF"
    ELSE "IDENTIFIER"

LexIdentifierOrKeyword(src, L) ==
    LET s == ScanIdent(src, L, <<>>)
    IN  [tok |-> Token(KeywordType(s.text), s.text, L.line, L.col), L |-> s.L]

NoError == [kind |-> "none", what |-> <<>>, line |-> 0, col |-> 0, hasCol |-> FALSE]

\* a std::runtime_error: kind names the throw site, what the offending
\* character / token text / name, hasCol whether the message gives a column
Exception(kind, what, line, col, hasCol) ==
    [kind |-> kind, what |-> what, line |-> line, col |-> col, hasCol |-> hasCol]

\* the switch of tokenize on the consumed character c; L is the lexer after
\* advance(), (startLine, startCol) the position before it
TwoCharOps == {"=", "!", "<", ">"}

OneCharType(c) ==
    CASE c = "=" -> "ASSIGN"
      [] c = "<" -> "LT"
      [] c = ">" -> "GT"
      [] c = "+" -> "PLUS"
      [] c = "-" -> "MINUS"
      [] c = "*" -> "STAR"
      [] c = "/" -> "SLASH"
      [] c = ";" -> "SEMICOLON"
      [] c = "(" -> "LPAREN"
      [] c = ")" -> "RPAREN"
      [] c = "{" -> "LBRACE"
      [] c = "}" -> "RBRACE"
      [] OTHER   -> "NONE"

TwoCharType(c) ==
    CASE c = "=" -> "EQ"
      [] c = "!" -> "NEQ"
      [] c = "<" -> "LEQ"
      [] c = ">" -> "GEQ"

\* (a switch that never looks at the character after the operator)
NeverFollowedByEquals(src, L, c) == FALSE

\* case '=', '!', '<', '>': if (peek() == '=')
FollowedByEquals(src, L, c) == c \in TwoCharOps /\ LexPeek(src, L, 0) = "="

\* (a two-character token that carries its first character only)
OneCharLexeme(c) == <<c>>

\* the value of the two-character tokens: "==", "!=", "<=", ">="
TwoCharLexeme(c) == <<c, "=">>

LexSymbol(src, L, c, startLine, startCol) ==
    IF FollowedByEquals(src, L, c)
    THEN [ok |-> TRUE, tok |-> Token(TwoCharType(c), TwoCharLexeme(c), startLine, startCol),
          L |-> LexAdvance(src, L), err |-> NoError]
    ELSE IF c = "!"
    THEN [ok |-> FALSE, tok |-> Token("NONE", <<>>, 0, 0), L |-> L,
          err |-> Exception("lex_bang", <<c>>, startLine, startCol, FALSE)]
    ELSE IF OneCharType(c) # "NONE"
    THEN [ok |-> TRUE, tok |-> Token(OneCharType(c), <<c>>, startLine, startCol),
          L |-> L, err |-> NoError]
    ELSE [ok |-> FALSE, tok |-> Token("NONE", <<>>, 0, 0), L |-> L,
          err |-> Exception("lex_char", <<c>>, startLine, startCol, FALSE)]

\* the while (true) loop of tokenize; [ok, tokens, err, L]
RECURSIVE TokenizeLoop(_, _, _)
TokenizeLoop(src, L0, toks) ==
    LET L == SkipWhitespaceAndComments(src, L0)
        c == LexPeek(src, L, 0)
    IN  IF L.pos >= Len(src)
        THEN [ok |-> TRUE, tokens |-> Append(toks, Token("EOF_TOKEN", <<>>, L.line, L.col)),
              err |-> NoError, L |-> L]
        ELSE IF IsDigit(c)
        THEN LET r == LexNumber(src, L)
             IN  TokenizeLoop(src, r.L, Append(toks, r.tok))
        ELSE IF IsAlpha(c) \/ c = "_"
        THEN LET r == LexIdentifierOrKeyword(src, L)
             IN  TokenizeLoop(src, r.L, Append(toks, r.tok))
        ELSE LET r == LexSymbol(src, LexAdvance(src, L), c, L.line, L.col)
             IN  IF r.ok
                 THEN TokenizeLoop(src, r.L, Append(toks, r.tok))
                 ELSE [ok |-> FALSE, tokens |-> <<>>, err |-> r.err, L |-> r.L]

Tokenize(src) == TokenizeLoop(src, LexerInit, <<>>)

(***************************************************************************)
(* AST (ast.hpp)                                                           *)
(***************************************************************************)
IntLiteralNode(v, ln, cl) ==
    [kind |-> "IntLiteral", value |-> v, line |-> ln, col |-> cl]

VariableNode(n, ln, cl) ==
    [kind |-> "Variable", name |-> n, line |-> ln, col |-> cl]

BinaryOpNode(op, l, r, ln, cl) ==
    [kind |-> "BinaryOp", opStr |-> op, left |-> l, right |-> r, line |-> ln, col |-> cl]

AssignmentNode(n, v, ln, cl) ==
    [kind |-> "Assignment", varName |-> n, value |-> v, line |-> ln, col |-> cl]

IfNode(cond, b, ln, cl) ==
    [kind |-> "If", condition |-> cond, body |-> b, line |-> ln, col |-> cl]

OutNode(e, ln, cl) ==
    [kind |-> "Out", expr |-> e, line |-> ln, col |-> cl]

ProgramNode(stmts) ==
    [kind |-> "Program", statements |-> stmts, line |-> 0, col |-> 0]

NoNode == [kind |-> "None", line |-> 0, col |-> 0]

(***************************************************************************)
(* The integer type.  int64_t is scaled down to IntBits bits, two's        *)
(* complement, so that TLC can enumerate and wrap it.                      *)
(***************************************************************************)
IntBits == 8

RECURSIVE Pow2(_)
Pow2(n) == IF n = 0 THEN 1 ELSE 2 * Pow2(n - 1)

MaxInt == Pow2(IntBits - 1) - 1

MinInt == 0 - Pow2(IntBits - 1)

\* the value of the low IntBits bits of x, read as a signed integer
Wrap(x) ==
    LET m == x % Pow2(IntBits)
    IN  IF m > MaxInt THEN m - Pow2(IntBits) ELSE m

\* std::stoll on a digit string: [ok, value]; ok = FALSE is std::out_of_range
RECURSIVE StoLLFrom(_, _, _)
StoLLFrom(text, i, acc) ==
    IF i > Len(text) THEN [ok |-> TRUE, value |-> acc]
    ELSE LET v == acc * 10 + DigitValue(text[i])
         IN  IF v > MaxInt THEN [ok |-> FALSE, value |-> 0]
             ELSE StoLLFrom(text, i + 1, v)

StoLL(text) == StoLLFrom(text, 1, 0)

(***************************************************************************)
(* Parser (parser.cpp).  pos is pos_; every parse function returns         *)
(* [ok, pos, node, err]: the node built and the cursor after it, or the    *)
(* exception thrown.                                                       *)
(***************************************************************************)
ParserPeek(toks, pos) ==
    IF pos < Len(toks) THEN toks[pos + 1] ELSE toks[Len(toks)]

\* pos_ after advance()
ParserAdvance(toks, pos) == IF pos < Len(toks) THEN pos + 1 ELSE pos

Check(toks, pos, type) == ParserPeek(toks, pos).type = type

Parsed(pos, node) == [ok |-> TRUE, pos |-> pos, node |-> node, err |-> NoError]

Thrown(pos, err) == [ok |-> FALSE, pos |-> pos, node |-> NoNode, err |-> err]

\* (an expect that skips the token it did not expect and goes on)
ExpectSkip(toks, pos, type) ==
    Parsed(ParserAdvance(toks, pos), toks[ParserAdvance(toks, pos)])

\* expect(type, msg): on success node is the token consumed
Expect(toks, pos, type) ==
    IF ~Check(toks, pos, type)
    THEN Thrown(pos, Exception("parse_expect", ParserPeek(toks, pos).value,
                               ParserPeek(toks, pos).line, ParserPeek(toks, pos).col, TRUE))
    ELSE Parsed(ParserAdvance(toks, pos), toks[ParserAdvance(toks, pos)])

ComparisonTypes == {"EQ", "NEQ", "LT", "GT", "LEQ", "GEQ"}

AddSubTypes == {"PLUS", "MINUS"}

MulDivTypes == {"STAR", "SLASH"}

\* the three binary levels: the operator tokens the while loop of the level
\* continues on, and the function it calls for each operand
\* (a parser whose additive and multiplicative loops took each other's
\* operators)
LevelTypesSwapped(level) ==
    CASE level = "Comparison" -> ComparisonTypes
      [] level = "AddSub"     -> MulDivTypes
      [] level = "MulDiv"     -> AddSubTypes

LevelTypes(level) ==
    CASE level = "Comparison" -> ComparisonTypes
      [] level = "AddSub"     -> AddSubTypes
      [] level = "MulDiv"     -> MulDivTypes

OperandRule(level) ==
    CASE level = "Comparison" -> "AddSub"
      [] level = "AddSub"     -> "MulDiv"
      [] level = "MulDiv"     -> "Primary"

\* (a loop that parsed its right operand at its own level)
RightOperandSameLevel(level) == level

\* auto right = parseAddSub() / parseMulDiv() / parsePrimary(): the function
\* the while loop of a level calls for the operand after the operator
RightOperandRule(level) == OperandRule(level)

BinaryLevels == {"Comparison", "AddSub", "MulDiv"}

\* the while loop of a level goes round once more
LoopContinues(toks, pos, level) == ParserPeek(toks, pos).type \in LevelTypes(level)

\* (a BinaryOp node that takes the position of its right operand)
FoldLeftAtOperand(op, left, right) ==
    BinaryOpNode(op.value, left, right, right.line, right.col)

\* left = make_unique<BinaryOpNode>(op.value, move(left), move(right), ln, cl)
FoldLeft(op, left, right) == BinaryOpNode(op.value, left, right, op.line, op.col)

\* The parse functions call each other; rule names the function called:
\* Program (parse), Statement, Assignment, If, Out, Expr, Comparison, AddSub,
\* MulDiv, Primary, and Body / Loop for the while loops of parse, parseIf
\* and of the binary levels.  acc is what the loop has built so far.
RECURSIVE ParseRule(_, _, _, _, _)
ParseRule(rule, level, toks, pos, acc) ==
    CASE rule = "Primary" ->
           IF Check(toks, pos, "INT_LITERAL")
           THEN LET tok == toks[ParserAdvance(toks, pos)]
                    v   == StoLL(tok.value)
                IN  IF v.ok
                    THEN Parsed(ParserAdvance(toks, pos),
                                IntLiteralNode(v.value, tok.line, tok.col))
                    ELSE Thrown(ParserAdvance(toks, pos),
                                Exception("stoll", tok.value, tok.line, tok.col, FALSE))
           ELSE IF Check(toks, pos, "IDENTIFIER")
           THEN LET tok == toks[ParserAdvance(toks, pos)]
                IN  Parsed(ParserAdvance(toks, pos),
                           VariableNode(tok.value, tok.line, tok.col))
           ELSE IF Check(toks, pos, "LPAREN")
           THEN LET e == ParseRule("Expr", level, toks, ParserAdvance(toks, pos), acc)
                IN  IF ~e.ok THEN e
                    ELSE LET r == Expect(toks, e.pos, "RPAREN")
                         IN  IF r.ok THEN Parsed(r.pos, e.node) ELSE r
           ELSE Thrown(pos, Exception("parse_primary", ParserPeek(toks, pos).value,
                                      ParserPeek(toks, pos).line,
                                      ParserPeek(toks, pos).col, FALSE))
      [] rule = "Binary" ->
           \* parseComparison / parseAddSub / parseMulDiv
           LET left == ParseRule(OperandRule(level), OperandRule(level), toks, pos, acc)
           IN  IF left.ok THEN ParseRule("Loop", level, toks, left.pos, left.node)
               ELSE left
      [] rule = "Loop" ->
           \* their while loops; acc is left
           IF LoopContinues(toks, pos, level)
           THEN LET op    == toks[ParserAdvance(toks, pos)]
                    right == ParseRule(RightOperandRule(level), RightOperandRule(level),
                                       toks, ParserAdvance(toks, pos), acc)
                IN  IF ~right.ok THEN right
                    ELSE ParseRule("Loop", level, toks, right.pos,
                                   FoldLeft(op, acc, right.node))
           ELSE Parsed(pos, acc)
      [] rule \in BinaryLevels -> ParseRule("Binary", rule, toks, pos, acc)
      [] rule = "Expr" -> ParseRule("Binary", "Comparison", toks, pos, acc)
      [] rule = "Assignment" ->
           LET id == Expect(toks, pos, "IDENTIFIER")
           IN  IF ~id.ok THEN id
           ELSE LET eq == Expect(toks, id.pos, "ASSIGN")
                IN  IF ~eq.ok THEN eq
           ELSE LET val == ParseRule("Expr", level, toks, eq.pos, acc)
                IN  IF ~val.ok THEN val
           ELSE LET semi == Expect(toks, val.pos, "SEMICOLON")
                IN  IF ~semi.ok THEN semi
           ELSE Parsed(semi.pos, AssignmentNode(id.node.value, val.node,
                                                id.node.line, id.node.col))
      [] rule = "Out" ->
           LET tok == Expect(toks, pos, "OUT")
           IN  IF ~tok.ok THEN tok
           ELSE LET e == ParseRule("Expr", level, toks, tok.pos, acc)
                IN  IF ~e.ok THEN e
           ELSE LET semi == Expect(toks, e.pos, "SEMICOLON")
                IN  IF ~semi.ok THEN semi
           ELSE Parsed(semi.pos, OutNode(e.node, tok.node.line, tok.node.col))
      [] rule = "Body" ->
           \* the while loop of parseIf; acc is body
           IF ~Check(toks, pos, "RBRACE") /\ ~Check(toks, pos, "EOF_TOKEN")
           THEN LET st == ParseRule("Statement", level, toks, pos, NoNode)
                IN  IF ~st.ok THEN st
                    ELSE ParseRule("Body", level, toks, st.pos, Append(acc, st.node))
           ELSE Parsed(pos, acc)
      [] rule = "If" ->
           LET tok == Expect(toks, pos, "IF")
           IN  IF ~tok.ok THEN tok
           ELSE LET lp == Expect(toks, tok.pos, "LPAREN")
                IN  IF ~lp.ok THEN lp
           ELSE LET cond == ParseRule("Expr", level, toks, lp.pos, acc)
                IN  IF ~cond.ok THEN cond
           ELSE LET rp == Expect(toks, cond.pos, "RPAREN")
                IN  IF ~rp.ok THEN rp
           ELSE LET lb == Expect(toks, rp.pos, "LBRACE")
                IN  IF ~lb.ok THEN lb
           ELSE LET body == ParseRule("Body", level, toks, lb.pos, <<>>)
                IN  IF ~body.ok THEN body
           ELSE LET rb == Expect(toks, body.pos, "RBRACE")
                IN  IF ~rb.ok THEN rb
           ELSE Parsed(rb.pos, IfNode(cond.node, body.node, tok.node.line, tok.node.col))
      [] rule = "Statement" ->
           IF Check(toks, pos, "IF") THEN ParseRule("If", level, toks, pos, acc)
           ELSE IF Check(toks, pos, "OUT") THEN ParseRule("Out", level, toks, pos, acc)
           ELSE IF Check(toks, pos, "IDENTIFIER")
           THEN ParseRule("Assignment", level, toks, pos, acc)
           ELSE Thrown(pos, Exception("parse_statement", ParserPeek(toks, pos).value,
                                      ParserPeek(toks, pos).line,
                                      ParserPeek(toks, pos).col, FALSE))
      [] rule = "Program" ->
           \* the while loop of parse; acc is prog->statements
           IF ~Check(toks, pos, "EOF_TOKEN")
           THEN LET st == ParseRule("Statement", level, toks, pos, NoNode)
                IN  IF ~st.ok THEN st
                    ELSE ParseRule("Program", level, toks, st.pos, Append(acc, st.node))
           ELSE Parsed(pos, ProgramNode(acc))

ParseExpr(toks, pos) == ParseRule("Expr", "None", toks, pos, NoNode)

ParseStatement(toks, pos) == ParseRule("Statement", "None", toks, pos, NoNode)

Parse(toks) == ParseRule("Program", "None", toks, 0, <<>>)

(***************************************************************************)
(* IR.  An operand is <<kind, v, type>>: a constant, the result of an      *)
(* instruction ("reg"), a basic block or a global.  An instruction is      *)
(* [op, dst, ty, args, loc]: dst numbers its result (0 when it has none),  *)
(* loc is its !dbg location, NoLoc when it has none.                       *)
(***************************************************************************)
NoLoc == <<0, 0>>

Const(v, ty) == <<"const", v, ty>>

Reg(id, ty) == <<"reg", id, ty>>

BlockRef(b) == <<"block", b, "label">>

FmtStr == <<"global", 0, "ptr">>

TypeOf(val) == val[3]

Inst(op, dst, ty, args, loc) ==
    [op |-> op, dst |-> dst, ty |-> ty, args |-> args, loc |-> loc]

Terminators == {"condbr", "br", "ret"}

BasicBlock(name) == [name |-> name, insts |-> <<>>]

\* BasicBlock::getTerminator() # nullptr
HasTerminator(b) ==
    Len(b.insts) > 0 /\ b.insts[Len(b.insts)].op \in Terminators

AppendInsts(bs, b, insts) == [bs EXCEPT ![b].insts = @ \o insts]

(***************************************************************************)
(* Codegen (codegen.cpp)                                                   *)
(***************************************************************************)
Configs == {"Debug", "Development", "Shipping"}

HasDebugInfoAlways(cfg) == TRUE

\* diBuilder_ / diMainFunc_ are set: the constructor and createMainFunction
HasDebugInfo(cfg) == cfg # "Shipping"

\* setDebugLoc: the builder's debug location after the call
SetDebugLoc(cfg, loc, line, col) ==
    IF ~HasDebugInfo(cfg) THEN loc ELSE <<line, col>>

EmptyFn == [x \in {} |-> 0]

\* the names the statements of a list assign, nested statements included
RECURSIVE AssignedNames(_)
AssignedNames(stmts) ==
    IF stmts = <<>> THEN {}
    ELSE LET s == Head(stmts)
         IN  (IF s.kind = "Assignment" THEN {s.varName}
              ELSE IF s.kind = "If" THEN AssignedNames(s.body)
              ELSE {})
             \cup AssignedNames(Tail(stmts))

\* (a symbol table that starts with every name the file assigns)
HoistedVariables == [n \in AssignedNames(ast.statements) |-> 0]

\* variables_ of a new Codegen: the empty map
NoVariables == EmptyFn

\* (a lookup that never finds the name)
NeverDeclared(name, V) == FALSE

IsDeclared(name, V) == name \in DOMAIN V

ArithOp(opStr) ==
    CASE opStr = <<"+">> -> "add"
      [] opStr = <<"-">> -> "sub"
      [] opStr = <<"*">> -> "mul"
      [] opStr = <<"/">> -> "sdiv"
      [] OTHER -> "none"

CmpOp(opStr) ==
    CASE opStr = <<"=", "=">> -> "icmp_eq"
      [] opStr = <<"!", "=">> -> "icmp_ne"
      [] opStr = <<"<">>      -> "icmp_slt"
      [] opStr = <<">">>      -> "icmp_sgt"
      [] opStr = <<"<", "=">> -> "icmp_sle"
      [] opStr = <<">", "=">> -> "icmp_sge"
      [] OTHER -> "none"

\* the instruction that widens the i1 of a comparison to i64
CmpExt == "sext"

\* genExpr: [ok, val, insts, loc, id, err]: the value, the instructions
\* appended to the insertion block, the builder's debug location and the next
\* value number afterwards; ok = FALSE when it throws (insts are those
\* emitted before the throw)
Generated(val, insts, loc, id) ==
    [ok |-> TRUE, val |-> val, insts |-> insts, loc |-> loc, id |-> id, err |-> NoError]

GenThrown(insts, loc, id, err) ==
    [ok |-> FALSE, val |-> Const(0, "i64"), insts |-> insts, loc |-> loc, id |-> id,
     err |-> err]

\* (a binary operation emitted under the location its right operand left)
BinaryOpLocStale(cfg, loc, e) == loc

\* genExpr, line 305: setDebugLoc(n.line, n.col) after both operands
BinaryOpLoc(cfg, loc, e) == SetDebugLoc(cfg, loc, e.line, e.col)

RECURSIVE GenExpr(_, _, _, _, _)
GenExpr(e, V, cfg, loc, id) ==
    IF e.kind = "IntLiteral"
    THEN Generated(Const(e.value, "i64"), <<>>, SetDebugLoc(cfg, loc, e.line, e.col), id)
    ELSE IF e.kind = "Variable"
    THEN LET l == SetDebugLoc(cfg, loc, e.line, e.col)
         IN  IF ~IsDeclared(e.name, V)
             THEN GenThrown(<<>>, l, id,
                            Exception("undefined_variable", e.name, e.line, e.col, FALSE))
             ELSE Generated(Reg(id, "i64"),
                            <<Inst("load", id, "i64", <<Reg(V[e.name], "ptr")>>, l)>>,
                            l, id + 1)
    ELSE IF e.kind = "BinaryOp"
    THEN LET lhs == GenExpr(e.left, V, cfg, loc, id)
         IN  IF ~lhs.ok THEN lhs
             ELSE LET rhs == GenExpr(e.right, V, cfg, lhs.loc, lhs.id)
                  IN  IF ~rhs.ok
                      THEN GenThrown(lhs.insts \o rhs.insts, rhs.loc, rhs.id, rhs.err)
                      ELSE LET l  == BinaryOpLoc(cfg, rhs.loc, e)
                               i  == rhs.id
                               pre == lhs.insts \o rhs.insts
                           IN  IF ArithOp(e.opStr) # "none"
                               THEN Generated(Reg(i, "i64"),
                                        Append(pre, Inst(ArithOp(e.opStr), i, "i64",
                                                         <<lhs.val, rhs.val>>, l)),
                                        l, i + 1)
                               ELSE IF CmpOp(e.opStr) # "none"
                               THEN Generated(Reg(i + 1, "i64"),
                                        pre \o <<Inst(CmpOp(e.opStr), i, "i1",
                                                      <<lhs.val, rhs.val>>, l),
                                                 Inst(CmpExt, i + 1, "i64",
                                                      <<Reg(i, "i1")>>, l)>>,
                                        l, i + 2)
                               ELSE GenThrown(pre, l, i,
                                        Exception("unknown_operator", e.opStr,
                                                  e.line, e.col, FALSE))
    ELSE GenThrown(<<>>, loc, id, Exception("unknown_expression", <<>>, e.line, e.col, FALSE))

\* (an alloca appended after the last instruction of the entry block)
PastLast(insts, it) == Len(insts) + 1

\* createEntryAlloca: the entry block with the new alloca inserted before
\* its first non-alloca instruction
RECURSIVE FirstNonAlloca(_, _)
FirstNonAlloca(insts, it) ==
    IF it <= Len(insts) /\ insts[it].op = "alloca"
    THEN FirstNonAlloca(insts, it + 1)
    ELSE it

InsertAt(insts, it, x) ==
    SubSeq(insts, 1, it - 1) \o <<x>> \o SubSeq(insts, it, Len(insts))

\* builder_.SetInsertPoint(&entry, it) takes the debug location of the
\* instruction at it when there is one (IRBuilder), and restoreIP, which
\* goes back to the end of a block, leaves it: the builder's location
\* during and after createEntryAlloca
EntryAllocaLoc(bs, loc) ==
    LET it == FirstNonAlloca(bs[1].insts, 1)
    IN  IF it <= Len(bs[1].insts) THEN bs[1].insts[it].loc ELSE loc

CreateEntryAlloca(bs, id, loc) ==
    [bs EXCEPT ![1].insts =
        InsertAt(@, FirstNonAlloca(@, 1),
                 Inst("alloca", id, "ptr", <<>>, EntryAllocaLoc(bs, loc)))]

\* an item of the work list: a statement genStatement is to be called on, or
\* the rest of a genIf call (lines 265-268) whose body is being generated
StmtItem(node) == [t |-> "stmt", node |-> node, merge |-> 0]

EndIfItem(mergeBB) == [t |-> "endif", node |-> NoNode, merge |-> mergeBB]

StmtItems(stmts) == [i \in 1..Len(stmts) |-> StmtItem(stmts[i])]

(***************************************************************************)
(* The driver (main.cpp, main) and Codegen::generate, one action per step  *)
(***************************************************************************)
codegenVars == <<variables_, blocks, insertBB, curLoc, nextId, declares, globals, work,
                 steps>>

runVars == <<xBlock, regs, mem, output, visited>>

inputVars == <<source, config, wasm>>

\* (a driver that reports the exception and goes on to write the module)
FailAndGoOn(err) ==
    /\ pc' = "write"
    /\ error' = err

\* the catch block of main: "Compilation error", return 1
Fail(err) ==
    /\ pc' = "failed"
    /\ error' = err

\* Lexer::tokenize
DoTokenize ==
    /\ pc = "lex"
    /\ LET r == Tokenize(source)
       IN  IF r.ok
           THEN /\ tokens' = r.tokens
                /\ pc' = "parse"
                /\ UNCHANGED error
           ELSE /\ Fail(r.err)
                /\ UNCHANGED tokens
    /\ UNCHANGED <<inputVars, ast, codegenVars, written, linked, runVars>>

\* Parser::parse
DoParse ==
    /\ pc = "parse"
    /\ LET r == Parse(tokens)
       IN  IF r.ok
           THEN /\ ast' = r.node
                /\ pc' = "construct"
                /\ UNCHANGED error
           ELSE /\ Fail(r.err)
                /\ UNCHANGED ast
    /\ UNCHANGED <<inputVars, tokens, codegenVars, written, linked, runVars>>

Global(name, kind, linkage, visibility) ==
    [name |-> name, kind |-> kind, linkage |-> linkage, visibility |-> visibility]

\* Codegen::Codegen: setupModule, setupDebugInfo, declarePrintf
Construct ==
    /\ pc = "construct"
    /\ globals' = {Global("printf", "declaration", "external", "default"),
                   Global(".fmt", "constant", "private", "default")}
    /\ variables_' = NoVariables
    /\ pc' = "generate"
    /\ UNCHANGED <<inputVars, tokens, ast, error, blocks, insertBB, curLoc,
                   nextId, declares, work, steps, written, linked, runVars>>

EntryAliasAlways(w) == {Global("__main_void", "alias:main", "external", "hidden")}

\* createMainFunction, lines 109-118: the alias crt1's _start calls
EntryAlias(w) ==
    IF w THEN {Global("__main_void", "alias:main", "external", "hidden")} ELSE {}

\* generate, line 173: createMainFunction
CreateMainFunction ==
    /\ pc = "generate"
    /\ globals' = globals
          \cup {Global("main", "function", "external",
                       IF wasm THEN "hidden" ELSE "default")}
          \cup EntryAlias(wasm)
    /\ blocks' = <<BasicBlock("entry")>>
    /\ insertBB' = 1
    /\ curLoc' = NoLoc
    /\ work' = StmtItems(ast.statements)
    /\ pc' = "statements"
    /\ UNCHANGED <<inputVars, tokens, ast, error, variables_, nextId, declares, steps,
                   written, linked, runVars>>

\* the declaration record of insertDeclare
Declare(name, line, col, alloca, bb) ==
    [name |-> name, line |-> line, col |-> col, alloca |-> alloca, block |-> bb]

\* (a declaration record for every assignment)
InsertDeclareAlways(D, cfg, fresh, d) == IF HasDebugInfo(cfg) THEN Append(D, d) ELSE D

\* genAssignment, lines 223-236: insertDeclare for a new slot, if (diBuilder_)
InsertDeclare(D, cfg, fresh, d) == IF fresh /\ HasDebugInfo(cfg) THEN Append(D, d) ELSE D

\* genStatement -> genAssignment
GenAssignment ==
    /\ pc = "statements"
    /\ work # <<>>
    /\ Head(work).t = "stmt"
    /\ Head(work).node.kind = "Assignment"
    /\ LET node   == Head(work).node
           loc1   == SetDebugLoc(config, curLoc, node.line, node.col)
           fresh  == ~IsDeclared(node.varName, variables_)
           V      == IF fresh THEN variables_ @@ (node.varName :> nextId) ELSE variables_
           bs1    == IF fresh THEN CreateEntryAlloca(blocks, nextId, loc1) ELSE blocks
           id1    == IF fresh THEN nextId + 1 ELSE nextId
           val    == GenExpr(node.value, V, config,
                             IF fresh THEN EntryAllocaLoc(blocks, loc1) ELSE loc1, id1)
           loc2   == SetDebugLoc(config, val.loc, node.line, node.col)
           store  == Inst("store", 0, "void", <<val.val, Reg(V[node.varName], "ptr")>>, loc2)
       IN  /\ variables_' = V
           /\ declares' = InsertDeclare(declares, config, fresh,
                              Declare(node.varName, node.line, node.col, nextId, insertBB))
           /\ nextId' = val.id
           /\ IF val.ok
              THEN /\ blocks' = AppendInsts(bs1, insertBB, Append(val.insts, store))
                   /\ curLoc' = loc2
                   /\ work' = Tail(work)
                   /\ UNCHANGED <<pc, error>>
              ELSE /\ blocks' = AppendInsts(bs1, insertBB, val.insts)
                   /\ curLoc' = val.loc
                   /\ Fail(val.err)
                   /\ UNCHANGED work
    /\ UNCHANGED <<inputVars, tokens, ast, insertBB, globals, steps, written, linked, runVars>>

\* (a conditional branch with its two targets exchanged)
CondBrSwapped(cond, thenBB, mergeBB, loc) ==
    Inst("condbr", 0, "void", <<cond, BlockRef(mergeBB), BlockRef(thenBB)>>, loc)

\* builder_->CreateCondBr(cond, thenBB, mergeBB)
CondBr(cond, thenBB, mergeBB, loc) ==
    Inst("condbr", 0, "void", <<cond, BlockRef(thenBB), BlockRef(mergeBB)>>, loc)

\* (the branch to the merge block put at the end of the then-block, whatever
\* block the body ended in)
CloseThenFromThen(bs, bb, mergeBB, loc) ==
    AppendInsts(bs, mergeBB - 1, <<Inst("br", 0, "void", <<BlockRef(mergeBB)>>, loc)>>)

\* (a then-block left without its branch to the merge block)
CloseThenNoBranch(bs, bb, mergeBB, loc) == bs

\* if (!builder_->GetInsertBlock()->getTerminator()) CreateBr(mergeBB)
CloseThen(bs, bb, mergeBB, loc) ==
    IF ~HasTerminator(bs[bb])
    THEN AppendInsts(bs, bb, <<Inst("br", 0, "void", <<BlockRef(mergeBB)>>, loc)>>)
    ELSE bs

\* genStatement -> genIf, lines 247-261: up to the loop over the body
GenIf ==
    /\ pc = "statements"
    /\ work # <<>>
    /\ Head(work).t = "stmt"
    /\ Head(work).node.kind = "If"
    /\ LET node    == Head(work).node
           loc1    == SetDebugLoc(config, curLoc, node.line, node.col)
           c       == GenExpr(node.condition, variables_, config, loc1, nextId)
           isInt   == TypeOf(c.val) = "i64"
           loc2    == IF isInt THEN SetDebugLoc(config, c.loc, node.line, node.col) ELSE c.loc
           test    == IF isInt
                      THEN <<Inst("icmp_ne", c.id, "i1", <<c.val, Const(0, "i64")>>, loc2)>>
                      ELSE <<>>
           cond    == IF isInt THEN Reg(c.id, "i1") ELSE c.val
           thenBB  == Len(blocks) + 1
           mergeBB == Len(blocks) + 2
           condbr  == CondBr(cond, thenBB, mergeBB, loc2)
       IN  IF c.ok
           THEN /\ blocks' = AppendInsts(blocks, insertBB, c.insts \o test \o <<condbr>>)
                              \o <<BasicBlock("then"), BasicBlock("merge")>>
                /\ nextId' = IF isInt THEN c.id + 1 ELSE c.id
                /\ curLoc' = loc2
                /\ insertBB' = thenBB
                /\ work' = StmtItems(node.body) \o <<EndIfItem(mergeBB)>> \o Tail(work)
                /\ UNCHANGED <<pc, error>>
           ELSE /\ blocks' = AppendInsts(blocks, insertBB, c.insts)
                /\ nextId' = c.id
                /\ curLoc' = c.loc
                /\ Fail(c.err)
                /\ UNCHANGED <<insertBB, work>>
    /\ UNCHANGED <<inputVars, tokens, ast, variables_, declares, globals, steps, written,
                   linked, runVars>>

\* the names whose slot is stored to in one of the blocks before block b
StoredBefore(V, bs, b) ==
    {n \in DOMAIN V :
        \E k \in 1..(b - 1) : \E i \in 1..Len(bs[k].insts) :
            bs[k].insts[i].op = "store" /\ bs[k].insts[i].args[2] = Reg(V[n], "ptr")}

\* (a genIf that gives the body a scope of its own: the names first assigned
\* in the body leave the symbol table when the body closes)
GenIfEndScoped ==
    /\ pc = "statements"
    /\ work # <<>>
    /\ Head(work).t = "endif"
    /\ blocks' = CloseThen(blocks, insertBB, Head(work).merge, curLoc)
    /\ insertBB' = Head(work).merge
    /\ work' = Tail(work)
    /\ variables_' = [n \in StoredBefore(variables_, blocks, Head(work).merge - 1)
                         |-> variables_[n]]
    /\ UNCHANGED <<inputVars, pc, tokens, ast, error, curLoc, nextId, declares,
                   globals, steps, written, linked, runVars>>

\* genIf, lines 265-268: after the body
GenIfEnd ==
    /\ pc = "statements"
    /\ work # <<>>
    /\ Head(work).t = "endif"
    /\ blocks' = CloseThen(blocks, insertBB, Head(work).merge, curLoc)
    /\ insertBB' = Head(work).merge
    /\ work' = Tail(work)
    /\ UNCHANGED <<inputVars, pc, tokens, ast, error, variables_, curLoc, nextId, declares,
                   globals, steps, written, linked, runVars>>

\* genStatement -> genOut
GenOut ==
    /\ pc = "statements"
    /\ work # <<>>
    /\ Head(work).t = "stmt"
    /\ Head(work).node.kind = "Out"
    /\ LET node == Head(work).node
           loc1 == SetDebugLoc(config, curLoc, node.line, node.col)
           val  == GenExpr(node.expr, variables_, config, loc1, nextId)
           loc2 == SetDebugLoc(config, val.loc, node.line, node.col)
           gep  == Inst("gep", val.id, "ptr",
                        <<FmtStr, Const(0, "i32"), Const(0, "i32")>>, loc2)
           call == Inst("call_printf", val.id + 1, "i32",
                        <<Reg(val.id, "ptr"), val.val>>, loc2)
       IN  IF val.ok
           THEN /\ blocks' = AppendInsts(blocks, insertBB, val.insts \o <<gep, call>>)
                /\ nextId' = val.id + 2
                /\ curLoc' = loc2
                /\ work' = Tail(work)
                /\ UNCHANGED <<pc, error>>
           ELSE /\ blocks' = AppendInsts(blocks, insertBB, val.insts)
                /\ nextId' = val.id
                /\ curLoc' = val.loc
                /\ Fail(val.err)
                /\ UNCHANGED work
    /\ UNCHANGED <<inputVars, tokens, ast, variables_, insertBB, declares, globals, steps,
                   written, linked, runVars>>

\* (a return appended without setDebugLoc(1, 1))
GenRetNoLoc ==
    /\ pc = "statements"
    /\ work = <<>>
    /\ blocks' = AppendInsts(blocks, insertBB,
                     <<Inst("ret", 0, "void", <<Const(0, "i32")>>, curLoc)>>)
    /\ steps' = Append(steps, "ret")
    /\ pc' = "finalize"
    /\ UNCHANGED <<inputVars, tokens, ast, error, variables_, insertBB, curLoc, nextId,
                   declares, globals, work, written, linked, runVars>>

\* generate, lines 178-179: the implicit return 0
GenRet ==
    /\ pc = "statements"
    /\ work = <<>>
    /\ LET loc == SetDebugLoc(config, curLoc, 1, 1)
       IN  /\ blocks' = AppendInsts(blocks, insertBB,
                            <<Inst("ret", 0, "void", <<Const(0, "i32")>>, loc)>>)
           /\ curLoc' = loc
    /\ steps' = Append(steps, "ret")
    /\ pc' = "finalize"
    /\ UNCHANGED <<inputVars, tokens, ast, error, variables_, insertBB, nextId, declares,
                   globals, work, written, linked, runVars>>

\* generate, lines 181-184: finalize the debug metadata, if any
FinalizeDebugInfo ==
    /\ pc = "finalize"
    /\ steps' = IF HasDebugInfo(config) THEN Append(steps, "finalize") ELSE steps
    /\ pc' = "optimize"
    /\ UNCHANGED <<inputVars, tokens, ast, error, variables_, blocks, insertBB, curLoc,
                   nextId, declares, globals, work, written, linked, runVars>>

\* Codegen::optimize: the pass pipeline that is run on module_
Pipeline(cfg) ==
    CASE cfg = "Debug"       -> "none"
      [] cfg = "Development" -> "O2"
      [] cfg = "Shipping"    -> "LTO-O3"

\* the globals an instruction of main refers to
UsedGlobals(bs) ==
    UNION {{IF bs[b].insts[i].op = "call_printf" THEN "printf"
            ELSE IF bs[b].insts[i].op = "gep" THEN ".fmt"
            ELSE "main" : i \in 1..Len(bs[b].insts)} : b \in 1..Len(bs)}

\* both pipelines of optimize() hold the global dead code elimination pass:
\* it erases the declarations and the private globals nothing refers to and
\* keeps the definitions with external linkage (main, the alias)
GlobalDCE(G, bs) ==
    {g \in G : g.kind \notin {"declaration", "constant"} \/ g.name \in UsedGlobals(bs)}

\* generate, line 186: optimize().  The passes are LLVM's; they are taken to
\* preserve the module's blocks.
Optimize ==
    /\ pc = "optimize"
    /\ steps' = IF Pipeline(config) # "none" THEN Append(steps, "optimize") ELSE steps
    /\ globals' = IF Pipeline(config) # "none" THEN GlobalDCE(globals, blocks) ELSE globals
    /\ pc' = "verify"
    /\ UNCHANGED <<inputVars, tokens, ast, error, variables_, blocks, insertBB, curLoc,
                   nextId, declares, work, written, linked, runVars>>

\* llvm::verifyModule finds nothing broken: every block holds exactly one
\* terminator, its last instruction
OneTerminatorLast(b) ==
    /\ HasTerminator(b)
    /\ \A i \in 1..(Len(b.insts) - 1) : b.insts[i].op \notin Terminators

WellFormed(bs) == \A b \in 1..Len(bs) : OneTerminatorLast(bs[b])

\* generate, lines 188-193: verifyModule
Verify ==
    /\ pc = "verify"
    /\ steps' = Append(steps, "verify")
    /\ IF WellFormed(blocks)
       THEN /\ pc' = "write"
            /\ UNCHANGED error
       ELSE Fail(Exception("verification_failed", <<>>, 0, 0, FALSE))
    /\ UNCHANGED <<inputVars, tokens, ast, variables_, blocks, insertBB, curLoc,
                   nextId, declares, globals, work, written, linked, runVars>>

\* main, lines 192-193: writeIR(tmpLL)
WriteIR ==
    /\ pc = "write"
    /\ written' = TRUE
    /\ pc' = "link"
    /\ UNCHANGED <<inputVars, tokens, ast, error, codegenVars, linked, runVars>>

\* main, lines 195-199: linkArtifact; rc is the exit status of clang
LinkArtifact ==
    /\ pc = "link"
    /\ linked' = TRUE
    /\ \E rc \in {0, 1} :
          IF rc = 0
          THEN /\ pc' = "compiled"
               /\ UNCHANGED error
          ELSE /\ pc' = "link_failed"
               /\ UNCHANGED error
    /\ UNCHANGED <<inputVars, tokens, ast, codegenVars, written, runVars>>

(***************************************************************************)
(* The run of the linked binary: the semantics of the IR that generate     *)
(* emitted, one basic block per step.                                      *)
(***************************************************************************)
\* values an uninitialised stack slot, or an operation with undefined
\* behaviour that does not trap, may yield
UndefVals == {-1, 0, 1, 7}

Abs(x) == IF x < 0 THEN 0 - x ELSE x

\* sdiv rounds towards zero
TruncDiv(a, b) ==
    IF (a < 0) = (b < 0) THEN Abs(a) \div Abs(b) ELSE 0 - (Abs(a) \div Abs(b))

SDivUndefined(a, b) == b = 0 \/ (a = MinInt /\ b = -1)

Bit(p) == IF p THEN 1 ELSE 0

\* the i1 result of icmp
ICmp(op, a, b) ==
    CASE op = "icmp_eq"  -> Bit(a = b)
      [] op = "icmp_ne"  -> Bit(a # b)
      [] op = "icmp_slt" -> Bit(a < b)
      [] op = "icmp_sgt" -> Bit(a > b)
      [] op = "icmp_sle" -> Bit(a <= b)
      [] op = "icmp_sge" -> Bit(a >= b)

\* sext i1 -> i64 copies the sign bit; zext fills with zeros
SExt1(bit) == 0 - bit

ZExt1(bit) == bit

Arith(op, a, b) ==
    CASE op = "add"  -> Wrap(a + b)
      [] op = "sub"  -> Wrap(a - b)
      [] op = "mul"  -> Wrap(a * b)
      [] op = "sdiv" -> TruncDiv(a, b)

ValueOf(opnd, R) == IF opnd[1] = "reg" THEN R[opnd[2]] ELSE opnd[2]

Exited == 0

Trapped == -1

\* executes insts[i..] ; u is the value read where the IR leaves it
\* undefined, trapUB whether undefined division traps.
\* [next, R, M, out]: the successor block (Exited, Trapped), registers,
\* memory and printed values
RECURSIVE RunBlock(_, _, _, _, _, _, _)
RunBlock(insts, i, R, M, out, u, trapUB) ==
    LET in == insts[i]
        a  == ValueOf(in.args[1], R)
        b  == ValueOf(in.args[2], R)
        Set(v) == RunBlock(insts, i + 1, (in.dst :> v) @@ R, M, out, u, trapUB)
    IN  IF i > Len(insts)
        THEN [next |-> Trapped, R |-> R, M |-> M, out |-> out]
        ELSE CASE in.op = "alloca" -> Set(in.dst)
               [] in.op = "load" -> Set(IF a \in DOMAIN M THEN M[a] ELSE u)
               [] in.op = "store" ->
                      RunBlock(insts, i + 1, R, (b :> a) @@ M, out, u, trapUB)
               [] in.op \in {"add", "sub", "mul"} -> Set(Arith(in.op, a, b))
               [] in.op = "sdiv" ->
                      IF SDivUndefined(a, b)
                      THEN IF trapUB
                           THEN [next |-> Trapped, R |-> R, M |-> M, out |-> out]
                           ELSE Set(u)
                      ELSE Set(Arith(in.op, a, b))
               [] in.op \in {"icmp_eq", "icmp_ne", "icmp_slt", "icmp_sgt",
                             "icmp_sle", "icmp_sge"} -> Set(ICmp(in.op, a, b))
               [] in.op = "sext" -> Set(SExt1(a))
               [] in.op = "zext" -> Set(ZExt1(a))
               [] in.op = "gep" -> Set(0)
               [] in.op = "call_printf" ->
                      RunBlock(insts, i + 1, (in.dst :> 0) @@ R, M, Append(out, b),
                               u, trapUB)
               [] in.op = "condbr" ->
                      [next |-> IF a = 1 THEN in.args[2][2] ELSE in.args[3][2],
                       R |-> R, M |-> M, out |-> out]
               [] in.op = "br" ->
                      [next |-> in.args[1][2], R |-> R, M |-> M, out |-> out]
               [] in.op = "ret" ->
                      [next |-> Exited, R |-> R, M |-> M, out |-> out]

\* the binary is started: control enters the entry block of main
StartRun ==
    /\ pc = "compiled"
    /\ pc' = "run"
    /\ xBlock' = 1
    /\ visited' = <<1>>
    /\ UNCHANGED <<inputVars, tokens, ast, error, codegenVars, written, linked, regs, mem,
                   output>>

\* the current block is executed up to and including its terminator
ExecBlock ==
    /\ pc = "run"
    /\ \E u \in UndefVals, trapUB \in BOOLEAN :
          LET r == RunBlock(blocks[xBlock].insts, 1, regs, mem, output, u, trapUB)
          IN  /\ regs' = r.R
              /\ mem' = r.M
              /\ output' = r.out
              /\ IF r.next = Exited
                 THEN pc' = "exited" /\ UNCHANGED <<xBlock, visited>>
                 ELSE IF r.next = Trapped
                 THEN pc' = "trapped" /\ UNCHANGED <<xBlock, visited>>
                 ELSE /\ xBlock' = r.next
                      /\ visited' = Append(visited, r.next)
                      /\ UNCHANGED pc
    /\ UNCHANGED <<inputVars, tokens, ast, error, codegenVars, written, linked>>

(***************************************************************************)
(* Source programs                                                         *)
(***************************************************************************)
Example ==
    <<"x", "=", "1", "0", ";", "y", "=", "3", "2", ";", "z", "=", "x", "+", "y", ";",
      "o", "u", "t", " ", "z", ";", "i", "f", "(", "z", ">", "4", "0", ")", "{",
      "o", "u", "t", " ", "1", ";", "}">>

IfSrc(cond, body) == <<"i", "f", "(">> \o cond \o <<")", "{">> \o body \o <<"}">>

OutSrc(e) == <<"o", "u", "t", " ">> \o e \o <<";">>

AssignSrc(v, e) == v \o <<"=">> \o e \o <<";">>

\* the statements without a body, and the conditions, that programs are
\* built from
SimpleStmts ==
    {AssignSrc(<<"x">>, <<"1">>), AssignSrc(<<"y">>, <<"x">>),
     AssignSrc(<<"x">>, <<"x", "+", "1">>), OutSrc(<<"x">>)}

Conds == {<<"0">>, <<"x">>}

MaxStmts == 3   \* statements of a program, nested ones included

MaxDepth == 2   \* nesting depth of if statements

\* the sources of one statement of n statements in all (itself and the nested
\* ones), nested at most d deep, and of a statement list of n statements
RECURSIVE StmtSrcs(_, _)
RECURSIVE ListSrcs(_, _)
StmtSrcs(n, d) ==
    IF n = 1
    THEN SimpleStmts \cup (IF d > 0 THEN {IfSrc(c, <<>>) : c \in Conds} ELSE {})
    ELSE IF d > 0
         THEN {IfSrc(c, b) : c \in Conds, b \in ListSrcs(n - 1, d - 1)}
         ELSE {}

ListSrcs(n, d) ==
    IF n = 0 THEN {<<>>}
    ELSE UNION {{s \o r : s \in StmtSrcs(k, d), r \in ListSrcs(n - k, d)} : k \in 1..n}

StructuredSources == UNION {ListSrcs(n, MaxDepth) : n \in 0..MaxStmts}

\* an assignment two ifs deep that is read after both have closed
NestedAssign ==
    IfSrc(<<"1">>, IfSrc(<<"1">>, AssignSrc(<<"x">>, <<"1">>))) \o OutSrc(<<"x">>)

\* hello.nano, with its comments and line breaks
Hello ==
    <<"/", "/", " ", "h", "i", "\n">>
    \o AssignSrc(<<"x">>, <<"1", "0">>) \o <<"\n">>
    \o <<"y", " ", "=", " ", "3", "2", ";", "\n">>
    \o <<"z", " ", "=", " ", "x", " ", "+", " ", "y", ";", "\n">>
    \o <<"o", "u", "t", " ", "z", ";", " ", "/", "/", " ", "4", "2", "\n">>
    \o <<"i", "f", " ", "(", "z", " ", ">", " ", "4", "0", ")", " ", "{", "\n">>
    \o <<" ", "o", "u", "t", " ", "1", ";", "\n", "}", "\n">>

\* sources the lexer or the parser rejects
Rejected ==
    {<<"x", "=", "1", "!", ";">>, <<"x", "=", "@", ";">>, <<"x", "=", ";">>,
     <<"x", "1", ";">>, <<"1", ";">>, <<"i", "f", "(", "1", ")", "{">>}

NamedSources == {Example, NestedAssign, Hello} \cup Rejected

Sources == StructuredSources \cup NamedSources

\* expressions: every operator between atoms, and every pair of operators
\* over three operands, flat and with either pair parenthesised
OpSrcs ==
    {<<"+">>, <<"-">>, <<"*">>, <<"/">>, <<"=", "=">>, <<"!", "=">>, <<"<">>, <<">">>,
     <<"<", "=">>, <<">", "=">>}

Atoms == {<<"0">>, <<"1">>, <<"2">>, <<"(", "0", "-", "1", ")">>}

Operands == {<<"1">>, <<"2">>, <<"3">>}

Paren(e) == <<"(">> \o e \o <<")">>

BinarySrcs == {a \o op \o b : a \in Atoms, op \in OpSrcs, b \in Atoms}

FlatSrcs ==
    {a \o o1 \o b \o o2 \o c :
        a \in Operands, o1 \in OpSrcs, b \in Operands, o2 \in OpSrcs, c \in Operands}

LeftParenSrcs ==
    {Paren(a \o o1 \o b) \o o2 \o c :
        a \in Operands, o1 \in OpSrcs, b \in Operands, o2 \in OpSrcs, c \in Operands}

RightParenSrcs ==
    {a \o o1 \o Paren(b \o o2 \o c) :
        a \in Operands, o1 \in OpSrcs, b \in Operands, o2 \in OpSrcs, c \in Operands}

\* the same over names: a OP1 b OP2 c
NameSrcs == {<<"a">> \o o1 \o <<"b">> \o o2 \o <<"c">> : o1 \in OpSrcs, o2 \in OpSrcs}

CondSrcs == BinarySrcs \cup {<<"0">>, <<"5">>}

ExprSources ==
    {OutSrc(e) :
        e \in BinarySrcs \cup FlatSrcs \cup LeftParenSrcs \cup RightParenSrcs \cup NameSrcs}
    \cup {IfSrc(e, OutSrc(<<"1">>)) \o OutSrc(<<"2">>) : e \in CondSrcs}
    \cup {OutSrc(<<"1", " ", "+", " ", "2", " ", "*", " ", "3">>),
          OutSrc(<<"(", "1", "<", "2", ")", "+", "(", "2", "<", "3", ")">>),
          Example}

\* the texts the lexer is run on: every string of up to MaxLexLen characters
\* of LexAlphabet, and the programs above
LexAlphabet == {"1", "a", "_", "=", "!", "<", "/", " ", "\n", "@"}

MaxLexLen == 4   \* characters of a text

RECURSIVE Strings(_)
Strings(n) ==
    IF n = 0 THEN {<<>>}
    ELSE LET S == Strings(n - 1)
         IN  S \cup {Append(t, c) : t \in S, c \in LexAlphabet}

\* every symbol of the language, a keyword, a comment and a line break
AllSymbols ==
    <<"i", "f", "(", "a", "<", "=", "1", ")", "{", "x", "=", "2", "+", "3", "-", "4", "*",
      "5", "/", "6", ";", "}", " ", "/", "/", " ", "@", "\n", "o", "u", "t", " ", "x",
      ">", "=", "1", "!", "=", "2", "=", "=", "3", ">", "4", ";">>

LexSources == Strings(MaxLexLen) \cup Sources \cup {AllSymbols}

\* the state before main compiles the source
Start ==
    /\ pc = "lex"
    /\ tokens = <<>>
    /\ ast = ProgramNode(<<>>)
    /\ error = NoError
    /\ variables_ = EmptyFn
    /\ blocks = <<>>
    /\ insertBB = 0
    /\ curLoc = NoLoc
    /\ nextId = 1
    /\ declares = <<>>
    /\ globals = {}
    /\ work = <<>>
    /\ steps = <<>>
    /\ written = FALSE
    /\ linked = FALSE
    /\ xBlock = 0
    /\ regs = EmptyFn
    /\ mem = EmptyFn
    /\ output = <<>>
    /\ visited = <<>>

\* any program, under any --config and with or without --wasm
Init ==
    /\ source \in Sources
    /\ config \in Configs
    /\ wasm \in BOOLEAN
    /\ Start

\* the expression programs, under the default profile of main
InitExpr ==
    /\ source \in ExprSources
    /\ config = "Debug"
    /\ wasm = FALSE
    /\ Start

Next ==
    \/ DoTokenize
    \/ DoParse
    \/ Construct
    \/ CreateMainFunction
    \/ GenAssignment
    \/ GenIf
    \/ GenIfEnd
    \/ GenOut
    \/ GenRet
    \/ FinalizeDebugInfo
    \/ Optimize
    \/ Verify
    \/ WriteIR
    \/ LinkArtifact
    \/ StartRun
    \/ ExecBlock

Spec == Init /\ [][Next]_vars

\* the lexer alone, on the texts of LexSources
InitLex ==
    /\ source \in LexSources
    /\ config = "Debug"
    /\ wasm = FALSE
    /\ Start

NextLex == DoTokenize

SpecLex == InitLex /\ [][NextLex]_vars

SpecExpr == InitExpr /\ [][Next]_vars

\* the lexer and the parser, on the texts of LexSources
NextFront ==
    \/ DoTokenize
    \/ DoParse

SpecFront == InitLex /\ [][NextFront]_vars

(***************************************************************************)
(* The language rules (the NanoScript language rules document): what a     *)
(* program means, statement by statement.                                  *)
(***************************************************************************)
RefCompares == {<<"=", "=">>, <<"!", "=">>, <<"<">>, <<">">>, <<"<", "=">>, <<">", "=">>}

RefHolds(opStr, a, b) ==
    CASE opStr = <<"=", "=">> -> a = b
      [] opStr = <<"!", "=">> -> a # b
      [] opStr = <<"<">>      -> a < b
      [] opStr = <<">">>      -> a > b
      [] opStr = <<"<", "=">> -> a <= b
      [] opStr = <<">", "=">> -> a >= b

\* [ok, v]: the int64 value of an expression under the store; ok = FALSE
\* where the rules give it none (a name without a value, a division that has
\* no int64 result)
RECURSIVE RefEval(_, _)
RefEval(e, store) ==
    IF e.kind = "IntLiteral" THEN [ok |-> TRUE, v |-> e.value]
    ELSE IF e.kind = "Variable"
    THEN IF e.name \in DOMAIN store THEN [ok |-> TRUE, v |-> store[e.name]]
         ELSE [ok |-> FALSE, v |-> 0]
    ELSE LET l == RefEval(e.left, store)
             r == RefEval(e.right, store)
         IN  IF ~l.ok \/ ~r.ok THEN [ok |-> FALSE, v |-> 0]
             ELSE IF e.opStr \in RefCompares
             THEN [ok |-> TRUE, v |-> IF RefHolds(e.opStr, l.v, r.v) THEN 1 ELSE 0]
             ELSE IF e.opStr = <<"+">> THEN [ok |-> TRUE, v |-> Wrap(l.v + r.v)]
             ELSE IF e.opStr = <<"-">> THEN [ok |-> TRUE, v |-> Wrap(l.v - r.v)]
             ELSE IF e.opStr = <<"*">> THEN [ok |-> TRUE, v |-> Wrap(l.v * r.v)]
             ELSE IF r.v = 0 \/ (l.v = MinInt /\ r.v = -1) THEN [ok |-> FALSE, v |-> 0]
             ELSE [ok |-> TRUE, v |-> TruncDiv(l.v, r.v)]

\* [ok, out]: the values the statements print, in order, from the store on
RECURSIVE RefRun(_, _, _)
RefRun(stmts, store, out) ==
    IF stmts = <<>> THEN [ok |-> TRUE, out |-> out]
    ELSE LET s == Head(stmts)
             e == IF s.kind = "Assignment" THEN s.value
                  ELSE IF s.kind = "If" THEN s.condition ELSE s.expr
             r == RefEval(e, store)
         IN  IF ~r.ok THEN [ok |-> FALSE, out |-> out]
             ELSE IF s.kind = "Assignment"
             THEN RefRun(Tail(stmts), (s.varName :> r.v) @@ store, out)
             ELSE IF s.kind = "If"
             THEN RefRun((IF r.v # 0 THEN s.body ELSE <<>>) \o Tail(stmts), store, out)
             ELSE RefRun(Tail(stmts), store, Append(out, r.v))

\* the statements in the order generate walks them: a statement, then the
\* statements of its body
RECURSIVE Walk(_)
Walk(stmts) ==
    IF stmts = <<>> THEN <<>>
    ELSE LET s == Head(stmts)
         IN  <<s>> \o (IF s.kind = "If" THEN Walk(s.body) ELSE <<>>) \o Walk(Tail(stmts))

\* the Variable nodes of an expression, left to right
RECURSIVE Reads(_)
Reads(e) ==
    IF e.kind = "Variable" THEN <<e>>
    ELSE IF e.kind = "BinaryOp" THEN Reads(e.left) \o Reads(e.right)
    ELSE <<>>

\* the expression a statement evaluates itself
OwnExpr(s) ==
    IF s.kind = "Assignment" THEN s.value
    ELSE IF s.kind = "If" THEN s.condition ELSE s.expr

\* the names assigned by the first k statements of a walk
AssignedBy(w, k) == {w[j].varName : j \in {i \in 1..k : w[i].kind = "Assignment"}}

\* the phases of main after Codegen::generate has walked the statements
AfterStatements ==
    {"finalize", "optimize", "verify", "write", "link", "compiled", "link_failed", "run",
     "exited", "trapped"}

(***************************************************************************)
(* Claims                                                                  *)
(***************************************************************************)
TerminatorsOf(b) == {i \in 1..Len(b.insts) : b.insts[i].op \in Terminators}

\* the merge blocks of the if statements whose body is being generated
PendingMerges == {work[i].merge : i \in {j \in 1..Len(work) : work[j].t = "endif"}}

\* C1: every block of main that generate has finished holds exactly one
\* terminator, as its last instruction: while the statements are generated
\* only the insertion block and the merge blocks still to come lack theirs,
\* once the return is appended no block does, and verification never fails.
C1_BlocksWellFormed ==
    /\ pc = "statements" =>
          \A b \in 1..Len(blocks) :
             IF b = insertBB \/ b \in PendingMerges
             THEN TerminatorsOf(blocks[b]) = {}
             ELSE TerminatorsOf(blocks[b]) = {Len(blocks[b].insts)}
    /\ pc \in AfterStatements =>
          \A b \in 1..Len(blocks) : TerminatorsOf(blocks[b]) = {Len(blocks[b].insts)}
    /\ error.kind # "verification_failed"

\* an if nested in an if was generated and the module passed verification
C1_NestedIfVerified ==
    /\ pc = "write"
    /\ Len(blocks) >= 5
    /\ blocks[2].name = "then"
    /\ blocks[2].insts[Len(blocks[2].insts)].op = "condbr"

StepRank(step) ==
    CASE step = "ret"      -> 1
      [] step = "finalize" -> 2
      [] step = "verify"   -> 3
      [] step = "optimize" -> 4

\* C2: the steps of generate come in the order return, finalize, verify,
\* optimize: the optimizer only ever runs after the module was verified.
C2_OptimizeOnlyAfterVerify ==
    /\ \A i, j \in 1..Len(steps) : i < j => StepRank(steps[i]) < StepRank(steps[j])
    /\ \A i \in 1..Len(steps) :
          steps[i] = "optimize" => \E j \in 1..(i - 1) : steps[j] = "verify"

IsComparison(e) == e.kind = "BinaryOp" /\ e.opStr \in RefCompares

RECURSIVE ComparisonFree(_)
ComparisonFree(e) ==
    IF e.kind # "BinaryOp" THEN TRUE
    ELSE e.opStr \notin RefCompares /\ ComparisonFree(e.left) /\ ComparisonFree(e.right)

\* the program is the single statement  out e;
IsSingleOut == Len(ast.statements) = 1 /\ ast.statements[1].kind = "Out"

\* C3: a comparison evaluates to 1 when it holds and to 0 when it does not:
\* out a OP b;  over comparison-free operands prints 1 or 0, and the sum of
\* two comparisons prints the number of them that hold.
C3_ComparisonYieldsOneOrZero ==
    (pc = "exited" /\ IsSingleOut) =>
        LET e == ast.statements[1].expr
            r == RefEval(e, EmptyFn)
        IN  /\ (IsComparison(e) /\ ComparisonFree(e.left) /\ ComparisonFree(e.right) /\ r.ok)
                  => output = <<IF RefHolds(e.opStr, RefEval(e.left, EmptyFn).v,
                                            RefEval(e.right, EmptyFn).v) THEN 1 ELSE 0>>
            /\ (e.kind = "BinaryOp" /\ e.opStr = <<"+">> /\ IsComparison(e.left)
                /\ IsComparison(e.right) /\ r.ok)
                  => output = <<r.v>>

BeforeStatements == {"lex", "parse", "construct", "generate", "statements"}

\* the reads <<k, i>> (statement k of the walk, its i-th read) of a name that
\* no statement up to and including k assigns
EarlyReads(w) ==
    {ki \in UNION {{<<k, i>> : i \in 1..Len(Reads(OwnExpr(w[k])))} : k \in 1..Len(w)} :
        Reads(OwnExpr(w[ki[1]]))[ki[2]].name \notin AssignedBy(w, ki[1])}

FirstOf(S) ==
    CHOOSE ki \in S : \A o \in S : ki[1] < o[1] \/ (ki[1] = o[1] /\ ki[2] <= o[2])

\* C4: when a statement reads a name that only later statements of the walk
\* assign (or none does), generate throws the undefined-variable error of the
\* first such read, and no module is finished or written.
C4_ReadBeforeAssignmentFails ==
    LET w == Walk(ast.statements)
    IN  (pc \notin BeforeStatements /\ EarlyReads(w) # {}) =>
            LET ki == FirstOf(EarlyReads(w))
                rd == Reads(OwnExpr(w[ki[1]]))[ki[2]]
            IN  /\ pc = "failed"
                /\ error = Exception("undefined_variable", rd.name, rd.line, rd.col, FALSE)
                /\ steps = <<>>
                /\ ~written

\* generate has thrown on a read of a name that a later statement assigns
C4_ReadBeforeLaterAssignment ==
    /\ pc = "failed"
    /\ error.kind = "undefined_variable"
    /\ error.what \in AssignedNames(ast.statements)

\* the statements of the walk that are the first assignment to their name and
\* read that name in their own right-hand side
SelfReferences(w) ==
    {k \in 1..Len(w) :
        /\ w[k].kind = "Assignment"
        /\ w[k].varName \notin AssignedBy(w, k - 1)
        /\ \E i \in 1..Len(Reads(w[k].value)) : Reads(w[k].value)[i].name = w[k].varName}

\* C5: a program whose first assignment to a name reads that name in its own
\* right-hand side is rejected with the undefined-variable error.
C5_SelfReferenceRejected ==
    (pc \notin BeforeStatements /\ SelfReferences(Walk(ast.statements)) # {}) =>
        (pc = "failed" /\ error.kind = "undefined_variable")

\* C6: a name stays in the symbol table, with its slot, from the assignment
\* that enters it to the end of the compilation, whatever if body the
\* assignment is in; every assignment enters its name; and the
\* undefined-variable error is never thrown for a name in the table.
C6_AssignmentsNotScoped ==
    /\ [][/\ \A n \in DOMAIN variables_ :
                n \in DOMAIN variables_' /\ variables_'[n] = variables_[n]
          /\ (pc = "statements" /\ work # <<>> /\ Head(work).t = "stmt"
              /\ Head(work).node.kind = "Assignment")
                => Head(work).node.varName \in DOMAIN variables_']_vars
    /\ [](pc = "failed" /\ error.kind = "undefined_variable"
            => error.what \notin DOMAIN variables_)

\* a name first assigned two ifs deep is loaded in the merge block of the
\* outer if, and the module passed verification
C6_ReadAfterNestedAssignment ==
    /\ pc = "write"
    /\ Len(blocks) >= 5
    /\ blocks[2].insts[Len(blocks[2].insts)].op = "condbr"
    /\ \E d \in 1..Len(declares) :
          /\ declares[d].block = 4
          /\ \E i \in 1..Len(blocks[3].insts) :
                /\ blocks[3].insts[i].op = "load"
                /\ blocks[3].insts[i].args[1] = Reg(declares[d].alloca, "ptr")

OperandTypes == {"INT_LITERAL", "IDENTIFIER"}

OperatorTypes == ComparisonTypes \cup AddSubTypes \cup MulDivTypes

\* how tightly the grammar binds an operator: 1 comparison, 2 additive,
\* 3 multiplicative
Binds(type) ==
    IF type \in ComparisonTypes THEN 1 ELSE IF type \in AddSubTypes THEN 2 ELSE 3

\* the node of an operand token, and of an operator token over two nodes
OperandNode(tok) ==
    IF tok.type = "INT_LITERAL"
    THEN IntLiteralNode(StoLL(tok.value).value, tok.line, tok.col)
    ELSE VariableNode(tok.value, tok.line, tok.col)

OperatorNode(tok, l, r) == BinaryOpNode(tok.value, l, r, tok.line, tok.col)

\* the tokens are  out a OP1 b OP2 c ;
IsFlat(toks) ==
    /\ Len(toks) = 8
    /\ toks[1].type = "OUT" /\ toks[7].type = "SEMICOLON" /\ toks[8].type = "EOF_TOKEN"
    /\ \A i \in {2, 4, 6} : toks[i].type \in OperandTypes
    /\ \A i \in {3, 5} : toks[i].type \in OperatorTypes

\* the tokens are  out ( a OP1 b ) OP2 c ;
IsLeftParen(toks) ==
    /\ Len(toks) = 10
    /\ toks[1].type = "OUT" /\ toks[2].type = "LPAREN" /\ toks[6].type = "RPAREN"
    /\ toks[9].type = "SEMICOLON" /\ toks[10].type = "EOF_TOKEN"
    /\ \A i \in {3, 5, 8} : toks[i].type \in OperandTypes
    /\ \A i \in {4, 7} : toks[i].type \in OperatorTypes

\* the tokens are  out a OP1 ( b OP2 c ) ;
IsRightParen(toks) ==
    /\ Len(toks) = 10
    /\ toks[1].type = "OUT" /\ toks[4].type = "LPAREN" /\ toks[8].type = "RPAREN"
    /\ toks[9].type = "SEMICOLON" /\ toks[10].type = "EOF_TOKEN"
    /\ \A i \in {2, 5, 7} : toks[i].type \in OperandTypes
    /\ \A i \in {3, 6} : toks[i].type \in OperatorTypes

\* the program is  out e;  with the out at the first token
OutOf(toks, e) == ProgramNode(<<OutNode(e, toks[1].line, toks[1].col)>>)

\* (a OP1 b) OP2 c  over the operand tokens a, b, c
LeftNested(a, op1, b, op2, c) ==
    OperatorNode(op2, OperatorNode(op1, OperandNode(a), OperandNode(b)), OperandNode(c))

\* a OP1 (b OP2 c)
RightNested(a, op1, b, op2, c) ==
    OperatorNode(op1, OperandNode(a), OperatorNode(op2, OperandNode(b), OperandNode(c)))

C8_Precedence ==
    /\ (pc \notin {"lex", "parse"} /\ IsFlat(tokens)) =>
          ast = OutOf(tokens,
                      IF Binds(tokens[5].type) > Binds(tokens[3].type)
                      THEN RightNested(tokens[2], tokens[3], tokens[4], tokens[5], tokens[6])
                      ELSE LeftNested(tokens[2], tokens[3], tokens[4], tokens[5], tokens[6]))
    /\ (pc \notin {"lex", "parse"} /\ IsLeftParen(tokens)) =>
          ast = OutOf(tokens, LeftNested(tokens[3], tokens[4], tokens[5],
                                         tokens[7], tokens[8]))
    /\ (pc \notin {"lex", "parse"} /\ IsRightParen(tokens)) =>
          ast = OutOf(tokens, RightNested(tokens[2], tokens[3], tokens[5],
                                          tokens[6], tokens[7]))
    /\ (pc = "exited" /\ IsSingleOut /\ ComparisonFree(ast.statements[1].expr)
        /\ RefEval(ast.statements[1].expr, EmptyFn).ok) =>
          output = <<RefEval(ast.statements[1].expr, EmptyFn).v>>
    /\ (pc = "exited" /\ source \in {OutSrc(<<"1", "+", "2", "*", "3">>),
                                    OutSrc(<<"1", " ", "+", " ", "2", " ", "*", " ", "3">>)})
          => output = <<7>>
    /\ (pc = "exited" /\ source = OutSrc(<<"(", "1", "+", "2", ")", "*", "3">>))
          => output = <<9>>

\* out 1 + 2 * 3;  has run and printed 7
C8_OnePlusTwoTimesThree ==
    /\ pc = "exited"
    /\ source = OutSrc(<<"1", " ", "+", " ", "2", " ", "*", " ", "3">>)
    /\ ast.statements[1].expr.right.kind = "BinaryOp"
    /\ output = <<7>>

\* the program is  if (cond) { out 1; } out 2;
IsGuardedOut ==
    /\ Len(ast.statements) = 2
    /\ ast.statements[1].kind = "If"
    /\ Len(ast.statements[1].body) = 1
    /\ ast.statements[1].body[1].kind = "Out"
    /\ ast.statements[1].body[1].expr.kind = "IntLiteral"
    /\ ast.statements[1].body[1].expr.value = 1
    /\ ast.statements[2].kind = "Out"
    /\ ast.statements[2].expr.kind = "IntLiteral"
    /\ ast.statements[2].expr.value = 2

\* the condition is an arithmetic expression, or one comparison of two
\* arithmetic expressions
PlainCondition(c) ==
    \/ ComparisonFree(c)
    \/ (IsComparison(c) /\ ComparisonFree(c.left) /\ ComparisonFree(c.right))

\* C9: an if runs its body exactly when its condition is not 0.  In every
\* run, the block entered after the conditional branch of an if is its
\* then-block when the value computed for the condition is not 0 and its
\* merge block when it is 0;  if (c) { out 1; } out 2;  prints 1 and 2 when
\* the arithmetic value of c is not 0 or the comparison c holds, and only 2
\* otherwise.
C9_NonzeroIsTrue ==
    /\ pc \in {"run", "exited", "trapped"} =>
          \A i \in 1..(Len(visited) - 1) :
             LET b == blocks[visited[i]].insts
                 n == Len(b)
             IN  b[n].op = "condbr" =>
                    /\ b[n - 1].dst = b[n].args[1][2]
                    /\ blocks[visited[i + 1]].name =
                          (IF ValueOf(b[n - 1].args[1], regs) # 0 THEN "then" ELSE "merge")
                    /\ visited[i + 1] > visited[i]
    /\ (pc = "exited" /\ IsGuardedOut /\ PlainCondition(ast.statements[1].condition)
        /\ RefEval(ast.statements[1].condition, EmptyFn).ok) =>
          output = (IF RefEval(ast.statements[1].condition, EmptyFn).v # 0
                    THEN <<1, 2>> ELSE <<2>>)

\* if (5) { out 1; } out 2;  has run its body
C9_FiveRunsBody ==
    /\ pc = "exited"
    /\ IsGuardedOut
    /\ ast.statements[1].condition.kind = "IntLiteral"
    /\ ast.statements[1].condition.value = 5
    /\ visited = <<1, 2, 3>>
    /\ output = <<1, 2>>

\* C10: a run prints the value of the expression of each out statement it
\* executes, in the order of the walk, under the values assigned so far: the
\* output is what the language rules give the program.
C10_PrintsTheValues ==
    (pc = "exited" /\ RefRun(ast.statements, EmptyFn, <<>>).ok) =>
        output = RefRun(ast.statements, EmptyFn, <<>>).out

\* tokenize has returned its tokens (the end-of-input token is always one)
Lexed == tokens # <<>>

\* the index after the line that holds index i: of its newline, or past the end
LineEnd(src, i) ==
    IF \E j \in i..Len(src) : src[j] = "\n"
    THEN CHOOSE j \in i..Len(src) : src[j] = "\n" /\ \A k \in i..(j - 1) : src[k] # "\n"
    ELSE Len(src) + 1

\* the text from index i on without its whitespace and its // comments
RECURSIVE Strip(_, _)
Strip(src, i) ==
    IF i > Len(src) THEN <<>>
    ELSE IF IsSpace(src[i]) THEN Strip(src, i + 1)
    ELSE IF src[i] = "/" /\ i < Len(src) /\ src[i + 1] = "/" THEN Strip(src, LineEnd(src, i))
    ELSE <<src[i]>> \o Strip(src, i + 1)

RECURSIVE Lexemes(_)
Lexemes(toks) == IF toks = <<>> THEN <<>> ELSE Head(toks).value \o Lexemes(Tail(toks))

\* C11: when tokenize succeeds, the values of its tokens, concatenated in
\* order, are the source without its whitespace and its // comments.
C11_LexemesRoundTrip == Lexed => Lexemes(tokens) = Strip(source, 1)

\* a text with whitespace or a comment between or after tokens was lexed
C11_TextWithGapsLexed ==
    /\ Lexed
    /\ Len(tokens) >= 3
    /\ Len(Lexemes(tokens)) < Len(source)
    /\ \E i \in 1..Len(tokens) : Len(tokens[i].value) = 2

\* the line and the column after all of the text is consumed
EndLine(src) == 1 + Cardinality({i \in 1..Len(src) : src[i] = "\n"})

EndCol(src) ==
    1 + Cardinality({i \in 1..Len(src) : \A j \in i..Len(src) : src[j] # "\n"})

\* C12: when tokenize succeeds there is exactly one end-of-input token, the
\* last one, at the line and column reached after the whole text.
C12_OneEofAtEnd ==
    Lexed =>
        /\ {i \in 1..Len(tokens) : tokens[i].type = "EOF_TOKEN"} = {Len(tokens)}
        /\ tokens[Len(tokens)].line = EndLine(source)
        /\ tokens[Len(tokens)].col = EndCol(source)

\* a text that ends in a comment after a line break was lexed
C12_EndsInComment ==
    /\ Lexed
    /\ Len(source) >= 3
    /\ source[Len(source)] # "\n"
    /\ \E i \in 2..(Len(source) - 1) :
          source[i - 1] = "\n" /\ source[i] = "/" /\ source[i + 1] = "/"
    /\ tokens[Len(tokens)].line = 2

\* the index in the text of the character at (line, col)
IndexOf(src, line, col) ==
    CHOOSE i \in 1..(Len(src) + 1) :
        /\ Cardinality({j \in 1..(i - 1) : src[j] = "\n"}) = line - 1
        /\ Cardinality({j \in 1..(i - 1) : \A k \in j..(i - 1) : src[k] # "\n"}) = col - 1

CharAt(src, i) == IF i <= Len(src) THEN src[i] ELSE NUL

\* C13: the two-character operators win: a token ASSIGN, LT or GT is never
\* followed at once by '=', and a token EQ, NEQ, LEQ, GEQ is its character
\* and the '=' after it; === is EQ and then ASSIGN.
C13_LongestMatch ==
    /\ Lexed =>
          \A t \in 1..Len(tokens) :
             LET i == IndexOf(source, tokens[t].line, tokens[t].col)
             IN  /\ tokens[t].type \in {"ASSIGN", "LT", "GT"} =>
                       /\ CharAt(source, i) =
                             (CASE tokens[t].type = "ASSIGN" -> "="
                                [] tokens[t].type = "LT" -> "<"
                                [] tokens[t].type = "GT" -> ">")
                       /\ CharAt(source, i + 1) # "="
                 /\ tokens[t].type \in {"EQ", "NEQ", "LEQ", "GEQ"} =>
                       /\ CharAt(source, i) =
                             (CASE tokens[t].type = "EQ" -> "="
                                [] tokens[t].type = "NEQ" -> "!"
                                [] tokens[t].type = "LEQ" -> "<"
                                [] tokens[t].type = "GEQ" -> ">")
                       /\ CharAt(source, i + 1) = "="
                       /\ tokens[t].value = <<CharAt(source, i), "=">>
    /\ (pc # "lex" /\ source = <<"=", "=", "=">>) =>
          /\ Len(tokens) = 3
          /\ tokens[1].type = "EQ" /\ tokens[2].type = "ASSIGN"
          /\ tokens[3].type = "EOF_TOKEN"

\* === was lexed
C13_TripleEquals ==
    /\ source = <<"=", "=", "=">>
    /\ Lexed
    /\ tokens[1].value = <<"=", "=">>
    /\ tokens[2].col = 3

LexSymbols == {"=", "+", "-", "*", "/", "<", ">", ";", "(", ")", "{", "}"}

\* [bad, i]: scanning the text from index i, outside whitespace and comments,
\* the first '!' without '=' after it or character that starts no token
RECURSIVE FirstBad(_, _)
FirstBad(src, i) ==
    IF i > Len(src) THEN [bad |-> FALSE, i |-> i]
    ELSE IF IsSpace(src[i]) THEN FirstBad(src, i + 1)
    ELSE IF src[i] = "/" /\ CharAt(src, i + 1) = "/" THEN FirstBad(src, LineEnd(src, i))
    ELSE IF src[i] = "!"
    THEN IF CharAt(src, i + 1) = "=" THEN FirstBad(src, i + 2) ELSE [bad |-> TRUE, i |-> i]
    ELSE IF IsDigit(src[i]) \/ IsAlpha(src[i]) \/ src[i] = "_" \/ src[i] \in LexSymbols
    THEN FirstBad(src, i + 1)
    ELSE [bad |-> TRUE, i |-> i]

\* C14: tokenize throws exactly when the scan, outside whitespace and
\* comments, meets a '!' without '=' after it or a character that starts no
\* token; it then returns no tokens, and the error names that character and
\* its line.
C14_LexErrorExactly ==
    pc # "lex" =>
        LET f == FirstBad(source, 1)
        IN  IF f.bad
            THEN /\ pc = "failed"
                 /\ tokens = <<>>
                 /\ error.kind = (IF source[f.i] = "!" THEN "lex_bang" ELSE "lex_char")
                 /\ error.what = <<source[f.i]>>
                 /\ error.line = 1 + Cardinality({j \in 1..(f.i - 1) : source[j] = "\n"})
            ELSE Lexed /\ error.kind \notin {"lex_bang", "lex_char"}

\* a text with an unrecognized character in a comment, after a token, was
\* lexed
C14_BadCharInComment ==
    /\ Lexed
    /\ \E i \in 1..Len(source) : source[i] = "@"
    /\ Len(tokens) >= 2

\* C15: every error that ends a compilation reports the line and the column
\* of what it is about.
C15_ErrorsCarryLineAndColumn ==
    pc = "failed" => (error.hasCol /\ error.line >= 1 /\ error.col >= 1)

\* the exit status of main, once it has returned
ExitStatus ==
    CASE pc \in {"failed", "link_failed"} -> 1
      [] pc \in {"compiled", "run", "exited", "trapped"} -> 0
      [] OTHER -> -1

\* C16: when tokenize, parse or generate throws, main exits with status 1
\* having written no IR file and started no link step; the file is written
\* and the link step started only after all three have returned.
C16_NoPartialOutput ==
    /\ pc = "failed" => (error # NoError /\ ~written /\ ~linked /\ ExitStatus = 1)
    /\ error # NoError => (pc = "failed" /\ ~written /\ ~linked)
    /\ linked => written
    /\ (written \/ pc = "write") =>
          /\ Lexed
          /\ Parse(tokens).ok /\ ast = Parse(tokens).node
          /\ work = <<>>
          /\ \E i \in 1..Len(steps) : steps[i] = "verify"
          /\ error = NoError

\* generate threw in the body of an if, after it had emitted instructions
C16_FailedInsideIf ==
    /\ pc = "failed"
    /\ error.kind = "undefined_variable"
    /\ Len(blocks) >= 3
    /\ insertBB = 2
    /\ ~written

\* every instruction of main, as <<block, index>>
AllInsts == UNION {{<<b, i>> : i \in 1..Len(blocks[b].insts)} : b \in 1..Len(blocks)}

InstAt(bi) == blocks[bi[1]].insts[bi[2]]

\* the first statement of the walk that assigns the name
FirstAssignment(w, name) ==
    w[CHOOSE k \in 1..Len(w) :
        /\ w[k].kind = "Assignment" /\ w[k].varName = name
        /\ \A j \in 1..(k - 1) : ~(w[j].kind = "Assignment" /\ w[j].varName = name)]

\* C17: without debug info (Shipping) the module has no declaration record
\* and no instruction has a position; with debug info there is exactly one
\* declaration record for each name in the symbol table, on the name's slot,
\* at the line and column of the first assignment to the name in the walk.
C17_DeclarationRecords ==
    IF ~HasDebugInfo(config)
    THEN /\ declares = <<>>
         /\ curLoc = NoLoc
         /\ \A bi \in AllInsts : InstAt(bi).loc = NoLoc
    ELSE /\ Len(declares) = Cardinality(DOMAIN variables_)
         /\ {declares[d].name : d \in 1..Len(declares)} = DOMAIN variables_
         /\ \A d \in 1..Len(declares) :
               LET first == FirstAssignment(Walk(ast.statements), declares[d].name)
               IN  /\ declares[d].alloca = variables_[declares[d].name]
                   /\ declares[d].line = first.line
                   /\ declares[d].col = first.col

\* with debug info, a name was assigned twice and has its one record
C17_AssignedTwice ==
    /\ pc = "write"
    /\ HasDebugInfo(config)
    /\ Len(declares) = 1
    /\ Cardinality({k \in 1..Len(Walk(ast.statements)) :
                       Walk(ast.statements)[k].kind = "Assignment"}) >= 2

\* C18: with debug info every instruction of main has a position: allocas,
\* loads, arithmetic, comparisons and their extension, stores, the test and
\* the branches of an if, the calls of out and the return.
C18_EveryInstructionHasPosition ==
    HasDebugInfo(config) =>
        \A bi \in AllInsts :
            /\ InstAt(bi).loc # NoLoc
            /\ InstAt(bi).loc[1] >= 1 /\ InstAt(bi).loc[2] >= 1

\* with debug info, a module with a slot and an if with an empty body, whose
\* then-block holds its branch only, is finished
C18_EmptyBodyBranch ==
    /\ pc = "write"
    /\ HasDebugInfo(config)
    /\ blocks[1].insts[1].op = "alloca"
    /\ \E b \in 1..Len(blocks) :
          /\ blocks[b].name = "then"
          /\ Len(blocks[b].insts) = 1
          /\ blocks[b].insts[1].op = "br"

AllocasOf(b) == {i \in 1..Len(blocks[b].insts) : blocks[b].insts[i].op = "alloca"}

\* a step of genAssignment
AssignmentStep ==
    /\ pc = "statements" /\ work # <<>>
    /\ Head(work).t = "stmt" /\ Head(work).node.kind = "Assignment"

\* C19: the allocas are the first instructions of the entry block, one for
\* each name in the symbol table, and no other block holds one, however deep
\* in ifs the first assignment is; and an assignment leaves the insertion
\* block as it was, its store going to the end of that block.
C19_AllocasHoisted ==
    /\ [](/\ \A b \in 2..Len(blocks) : AllocasOf(b) = {}
          /\ blocks # <<>> =>
                /\ AllocasOf(1) = 1..Cardinality(DOMAIN variables_)
                /\ {blocks[1].insts[i].dst : i \in AllocasOf(1)}
                      = {variables_[n] : n \in DOMAIN variables_})
    /\ [][AssignmentStep =>
             /\ insertBB' = insertBB
             /\ pc' = "statements" =>
                   blocks'[insertBB].insts[Len(blocks'[insertBB].insts)].op = "store"]_vars

\* a slot first assigned two ifs deep sits at the head of the entry block,
\* before the branch of the outer if
C19_NestedSlotInEntry ==
    /\ pc = "write"
    /\ Len(blocks) >= 5
    /\ blocks[2].insts[Len(blocks[2].insts)].op = "condbr"
    /\ blocks[1].insts[1].op = "alloca"
    /\ \E i \in 1..Len(blocks[4].insts) :
          /\ blocks[4].insts[i].op = "store"
          /\ blocks[4].insts[i].args[2] = Reg(blocks[1].insts[1].dst, "ptr")

\* the profile of a compilation: what --config and --wasm select
Profile(cfg, w) ==
    [optimization |-> Pipeline(cfg), debugInfo |-> HasDebugInfo(cfg), portable |-> w]

Selectable == {Profile(cfg, w) : cfg \in Configs, w \in BOOLEAN}

StepsOf(name) == {i \in 1..Len(steps) : steps[i] = name}

HasAlias == \E g \in globals : g.name = "__main_void"

\* C20 (as amended): the profile is a build configuration (Debug,
\* Development or Shipping) and a target flag.  The configuration selects
\* the optimization level and the debug info together: there is debug info
\* exactly when the level is not the whole-program one.  The target is
\* independent of the configuration, which gives six profiles; the module
\* shows each choice: passes run unless the level is none, declaration
\* records only with debug info, the entry alias only for the portable target.
C20_SixProfiles ==
    /\ Cardinality(Selectable) = 6
    /\ \A w \in BOOLEAN : Profile(config, w) \in Selectable
    /\ HasDebugInfo(config) = (Pipeline(config) # "LTO-O3")
    /\ pc = "write" =>
          /\ (StepsOf("optimize") # {}) = (Pipeline(config) # "none")
          /\ (StepsOf("finalize") # {}) = HasDebugInfo(config)
          /\ declares # <<>> => HasDebugInfo(config)
          /\ HasAlias = wasm

\* a shipping build for the portable target: passes run, no debug info, alias
C20_ShippingPortable ==
    /\ pc = "write"
    /\ config = "Shipping" /\ wasm
    /\ StepsOf("optimize") # {} /\ StepsOf("finalize") = {}
    /\ HasAlias
    /\ variables_ # NoVariables /\ declares = <<>>

\* C20 (as stated): with the optimization level of this compilation every
\* debug-info presence and every target can be selected
C20_AxesIndependent ==
    \A d \in BOOLEAN, t \in BOOLEAN :
        \E cfg \in Configs, w \in BOOLEAN :
            Profile(cfg, w) =
                [optimization |-> Pipeline(config), debugInfo |-> d, portable |-> t]

Named(name) == {g \in globals : g.name = name}

MainBuilt == pc \in {"statements", "finalize", "optimize", "verify", "write", "link"}

\* C21 (as amended): once main is created the module holds the alias
\* __main_void (external linkage, hidden visibility, aliasing main) exactly
\* when the target is the portable one, and exactly one function main, under
\* every configuration.  The print primitive is declared once, with external
\* linkage, in the module as it is built; the passes of an optimizing
\* configuration erase the declaration when no call of it is in main.
C21_EntryAlias ==
    MainBuilt =>
        /\ Named("__main_void")
              = (IF wasm THEN {Global("__main_void", "alias:main", "external", "hidden")}
                 ELSE {})
        /\ Cardinality(Named("main")) = 1
        /\ \A g \in Named("main") : g.kind = "function" /\ g.linkage = "external"
        /\ Cardinality(Named("printf")) <= 1
        /\ \A g \in Named("printf") : g.kind = "declaration" /\ g.linkage = "external"
        /\ (Pipeline(config) = "none" \/ pc \in {"statements", "finalize", "optimize"})
              => Cardinality(Named("printf")) = 1
        /\ (Pipeline(config) # "none" /\ pc \in {"verify", "write", "link"}
              /\ "printf" \notin UsedGlobals(blocks))
              => Named("printf") = {}

\* a portable module with its alias, optimized, that prints
C21_PortableOptimized ==
    /\ pc = "write"
    /\ wasm /\ Pipeline(config) = "O2"
    /\ Named("__main_void") # {}
    /\ Named("printf") # {}

\* C21 (as stated): alias exactly for the portable target, one main and one
\* declared print primitive under every configuration
C21_OnePrintPrimitive ==
    MainBuilt =>
        /\ (Named("__main_void") # {}) = wasm
        /\ Cardinality(Named("main")) = 1
        /\ Cardinality(Named("printf")) = 1

\* generate has emitted every statement and the return
BodyDone == pc \in {"finalize", "optimize", "verify", "write", "link"}

\* The lowering of a statement list as the language rules describe it: the
\* block that is current, the number of blocks, the conditional branches
\* <<from, then, merge>>, the branches <<from, merge>> and, for every
\* assignment and out in the order of the walk, the block it is emitted into.
LowerStart == [cur |-> 1, n |-> 1, cbr |-> {}, br |-> {}, home |-> <<>>]

RECURSIVE Lower(_, _)
Lower(stmts, st) ==
    IF stmts = <<>> THEN st
    ELSE LET s == Head(stmts)
         IN  IF s.kind = "If"
             THEN LET thenBB  == st.n + 1
                      mergeBB == st.n + 2
                      body    == Lower(s.body,
                                       [st EXCEPT !.cur = thenBB, !.n = mergeBB,
                                                  !.cbr = @ \cup {<<st.cur, thenBB, mergeBB>>}])
                  IN  Lower(Tail(stmts),
                            [body EXCEPT !.cur = mergeBB,
                                         !.br = @ \cup {<<body.cur, mergeBB>>}])
             ELSE Lower(Tail(stmts), [st EXCEPT !.home = Append(@, st.cur)])

\* the conditional branches and the branches that end a block of main
CondBrEdges ==
    {<<b, blocks[b].insts[Len(blocks[b].insts)].args[2][2],
          blocks[b].insts[Len(blocks[b].insts)].args[3][2]>> :
        b \in {k \in 1..Len(blocks) : /\ blocks[k].insts # <<>>
                                      /\ blocks[k].insts[Len(blocks[k].insts)].op = "condbr"}}

BrEdges ==
    {<<b, blocks[b].insts[Len(blocks[b].insts)].args[1][2]>> :
        b \in {k \in 1..Len(blocks) : /\ blocks[k].insts # <<>>
                                      /\ blocks[k].insts[Len(blocks[k].insts)].op = "br"}}

\* the stores and print calls of a block: one for each assignment and out
Emitted(b) ==
    {i \in 1..Len(blocks[b].insts) : blocks[b].insts[i].op \in {"store", "call_printf"}}

IfCount == Cardinality({k \in 1..Len(Walk(ast.statements)) :
                           Walk(ast.statements)[k].kind = "If"})

\* C22: when generate has emitted a program with k ifs, main has 1 + 2k
\* blocks, a then and a merge for each if; the block current at the if ends
\* with the conditional branch to then and merge, the block current after the
\* body (the merge of the last if of the body, if it has one) ends with the
\* branch to merge, no other branch exists, and every assignment and out is
\* emitted into the block current where it stands: the merge block for the
\* statements after an if.
C22_ConditionalLowering ==
    BodyDone =>
        LET L == Lower(ast.statements, LowerStart)
        IN  /\ Len(blocks) = 1 + 2 * IfCount
            /\ CondBrEdges = L.cbr
            /\ BrEdges = L.br
            /\ Cardinality(L.cbr) = IfCount /\ Cardinality(L.br) = IfCount
            /\ \A e \in L.cbr : /\ blocks[e[2]].name = "then"
                                /\ blocks[e[3]].name = "merge"
                                /\ e[3] = e[2] + 1
            /\ \A b \in 1..Len(blocks) :
                  /\ \A i \in 1..(Len(blocks[b].insts) - 1) :
                        blocks[b].insts[i].op \notin Terminators
                  /\ Cardinality(Emitted(b))
                        = Cardinality({k \in 1..Len(L.home) : L.home[k] = b})

\* an if whose body ends in an if, followed by a statement: the inner merge
\* block branches to the outer merge block, which holds the statement
C22_NestedThenStatement ==
    /\ pc = "write"
    /\ Len(blocks) = 5
    /\ <<5, 3>> \in BrEdges
    /\ <<2, 4, 5>> \in CondBrEdges
    /\ Emitted(3) # {}

\* every parse function, as <<rule, level, acc>>: the loops of parse and of
\* parseIf start from an empty list, the loop of a binary level from a left
\* operand
ParseCalls ==
    {<<"Program", "None", <<>> >>, <<"Body", "None", <<>> >>}
    \cup {<<r, "None", NoNode>> :
             r \in {"Statement", "Assignment", "If", "Out", "Expr", "Primary"}}
    \cup {<<l, l, NoNode>> : l \in BinaryLevels}
    \cup {<<"Loop", l, IntLiteralNode(0, 1, 1)>> : l \in BinaryLevels}

\* the index of the EOF token, as a value of the cursor pos_
EofPos(toks) == Len(toks) - 1

\* one turn of a loop starts at pos
LoopTurns(call, toks, pos) ==
    \/ call[1] = "Statement"
    \/ call[1] = "Loop" /\ LoopContinues(toks, pos, call[2])

\* C23: over the tokens of the lexer, from any position up to the EOF token,
\* no parse function leaves the cursor before the position it was called at
\* or past the EOF token, whether it returns or throws; a statement parsed
\* (one turn of the loops of parse and parseIf) and a turn of an operator loop
\* that returns leave it strictly further; and the parse step always ends,
\* with a program or with an error.
C23_CursorOnlyAdvances ==
    /\ [](pc = "parse" =>
            \A pos \in 0..EofPos(tokens), call \in ParseCalls :
                LET r == ParseRule(call[1], call[2], tokens, pos, call[3])
                IN  /\ r.pos >= pos
                    /\ r.pos <= EofPos(tokens)
                    /\ (r.ok /\ LoopTurns(call, tokens, pos)) => r.pos > pos)
    /\ [][pc = "parse" => pc' \in {"construct", "failed"}]_vars

\* a program with a nested if and an operator loop is parsed up to the EOF
\* token and no further
C23_StopsAtEof ==
    /\ pc = "construct"
    /\ Parse(tokens).pos = EofPos(tokens)
    /\ \E k \in 1..Len(Walk(ast.statements)) :
          /\ Walk(ast.statements)[k].kind = "If"
          /\ Walk(ast.statements)[k].body # <<>>
    /\ \E k \in 1..Len(Walk(ast.statements)) :
          /\ Walk(ast.statements)[k].kind # "If"
          /\ OwnExpr(Walk(ast.statements)[k]).kind = "BinaryOp"

\* C24: as the grammar comment of parser.hpp has it (comparison is addSub,
\* then at most one comparison operator and addSub), an expression
\* a CMP1 b CMP2 c  without parentheses is not accepted: once  out a CMP1 b
\* CMP2 c ;  has gone through the parser the compilation has failed.
C24_AtMostOneComparison ==
    (/\ IsFlat(tokens)
     /\ tokens[3].type \in ComparisonTypes
     /\ tokens[5].type \in ComparisonTypes
     /\ pc \notin {"lex", "parse"}) => pc = "failed"

\* the BinaryOp nodes of an expression
RECURSIVE BinaryOpsOf(_)
BinaryOpsOf(e) ==
    IF e.kind # "BinaryOp" THEN {}
    ELSE {e} \cup BinaryOpsOf(e.left) \cup BinaryOpsOf(e.right)

BinaryOpNodes ==
    UNION {BinaryOpsOf(OwnExpr(Walk(ast.statements)[k])) :
              k \in 1..Len(Walk(ast.statements))}

PositionsOf(kind) ==
    {<<Walk(ast.statements)[k].line, Walk(ast.statements)[k].col>> :
        k \in {j \in 1..Len(Walk(ast.statements)) : Walk(ast.statements)[j].kind = kind}}

InstsOf(ops) == {bi \in AllInsts : InstAt(bi).op \in ops}

ArithOps == {"add", "sub", "mul", "sdiv"}

\* C25: with debug info, in the finished main every arithmetic instruction
\* carries the position of its BinaryOp node (the operator token), every
\* comparison and its sign extension both carry the position of theirs, every
\* store the position of its assignment and every print call the position of
\* its out statement; there is one such instruction for each node, so none
\* carries the position of an operand.
C25_StampedWithOwnPosition ==
    (steps # <<>> /\ HasDebugInfo(config)) =>
        /\ {<<InstAt(bi).op, InstAt(bi).loc>> : bi \in InstsOf(ArithOps)}
              = {<<ArithOp(n.opStr), <<n.line, n.col>> >> :
                    n \in {m \in BinaryOpNodes : ArithOp(m.opStr) # "none"}}
        /\ Cardinality(InstsOf(ArithOps))
              = Cardinality({m \in BinaryOpNodes : ArithOp(m.opStr) # "none"})
        /\ {<<blocks[bi[1]].insts[bi[2] - 1].op, blocks[bi[1]].insts[bi[2] - 1].loc,
              InstAt(bi).loc>> : bi \in InstsOf({CmpExt})}
              = {<<CmpOp(n.opStr), <<n.line, n.col>>, <<n.line, n.col>> >> :
                    n \in {m \in BinaryOpNodes : CmpOp(m.opStr) # "none"}}
        /\ Cardinality(InstsOf({CmpExt}))
              = Cardinality({m \in BinaryOpNodes : CmpOp(m.opStr) # "none"})
        /\ {InstAt(bi).loc : bi \in InstsOf({"store"})} = PositionsOf("Assignment")
        /\ Cardinality(InstsOf({"store"})) = Cardinality(PositionsOf("Assignment"))
        /\ {InstAt(bi).loc : bi \in InstsOf({"call_printf"})} = PositionsOf("Out")
        /\ Cardinality(InstsOf({"call_printf"})) = Cardinality(PositionsOf("Out"))

\* a finished main with an arithmetic instruction whose right operand is a
\* load, a comparison and a store
C25_OperandsElsewhere ==
    /\ steps # <<>> /\ HasDebugInfo(config)
    /\ InstsOf({CmpExt}) # {}
    /\ InstsOf({"store"}) # {}
    /\ \E bi \in InstsOf(ArithOps) :
          /\ bi[2] > 1
          /\ blocks[bi[1]].insts[bi[2] - 1].op = "load"
          /\ blocks[bi[1]].insts[bi[2] - 1].loc # InstAt(bi).loc

\* the loads of the block about to run whose slot has not been stored to,
\* neither by a block run before nor earlier in the block
UnstoredLoads ==
    {i \in 1..Len(blocks[xBlock].insts) :
        /\ blocks[xBlock].insts[i].op = "load"
        /\ blocks[xBlock].insts[i].args[1][2] \notin DOMAIN mem
        /\ \A j \in 1..(i - 1) :
              ~(/\ blocks[xBlock].insts[j].op = "store"
                /\ blocks[xBlock].insts[j].args[2] = blocks[xBlock].insts[i].args[1])}

\* C26: in a run of a module that generate produced, whenever a block is
\* about to run, each of its loads reads a slot that a store has written,
\* in a block run before or earlier in the block.
C26_NoLoadBeforeStore ==
    pc = "run" => UnstoredLoads = {}

\* the Variable nodes the program reads
VariableNodes ==
    UNION {{Reads(OwnExpr(Walk(ast.statements)[k]))[i] :
               i \in 1..Len(Reads(OwnExpr(Walk(ast.statements)[k])))} :
              k \in 1..Len(Walk(ast.statements))}

\* the slots: the results of the allocas
Slots == {InstAt(bi).dst : bi \in InstsOf({"alloca"})}

\* C27: the symbol table maps each name that has been assigned to a slot of
\* its own: there are as many allocas as names in the table, every store and
\* every load uses a slot of the table, with debug info every load carries
\* the position of a Variable node and reads the slot of that node's name,
\* and when generate is through the names of the table are the names the
\* program assigns.  A step never removes or rebinds an entry; an assignment
\* to a name already in the table allocates nothing; and the store of every
\* assignment goes to the slot of its name.
C27_OneSlotPerName ==
    /\ [](/\ Cardinality(InstsOf({"alloca"})) = Cardinality(DOMAIN variables_)
          /\ Slots = {variables_[n] : n \in DOMAIN variables_}
          /\ \A n, m \in DOMAIN variables_ : variables_[n] = variables_[m] => n = m
          /\ \A bi \in InstsOf({"store"}) :
                \E n \in DOMAIN variables_ : InstAt(bi).args[2] = Reg(variables_[n], "ptr")
          /\ \A bi \in InstsOf({"load"}) :
                /\ \E n \in DOMAIN variables_ :
                      InstAt(bi).args[1] = Reg(variables_[n], "ptr")
                /\ HasDebugInfo(config) =>
                      \E v \in VariableNodes :
                          /\ InstAt(bi).loc = <<v.line, v.col>>
                          /\ InstAt(bi).args[1] = Reg(variables_[v.name], "ptr")
          /\ BodyDone =>
                DOMAIN variables_
                   = {Walk(ast.statements)[k].varName :
                         k \in {j \in 1..Len(Walk(ast.statements)) :
                                   Walk(ast.statements)[j].kind = "Assignment"}})
    /\ [][/\ \A n \in DOMAIN variables_ :
                n \in DOMAIN variables_' /\ variables_'[n] = variables_[n]
          /\ AssignmentStep =>
                /\ Head(work).node.varName \in DOMAIN variables_'
                /\ Head(work).node.varName \in DOMAIN variables_ =>
                      /\ variables_' = variables_
                      /\ Cardinality({i \in 1..Len(blocks'[1].insts) :
                                         blocks'[1].insts[i].op = "alloca"})
                            = Cardinality(AllocasOf(1))
                /\ pc' = "statements" =>
                      blocks'[insertBB].insts[Len(blocks'[insertBB].insts)].args[2]
                         = Reg(variables_'[Head(work).node.varName], "ptr")]_vars

\* two names, one of them assigned twice and read: two slots, three stores
C27_ReassignedAndRead ==
    /\ pc = "write"
    /\ Cardinality(DOMAIN variables_) = 2
    /\ Cardinality(InstsOf({"alloca"})) = 2
    /\ Cardinality(InstsOf({"store"})) = 3
    /\ InstsOf({"load"}) # {}

\* the 1-based line and column of index i of the text: a line more for every
\* newline before it, a column more for every character since the last one
PosOf(src, i) ==
    <<1 + Cardinality({j \in 1..(i - 1) : src[j] = "\n"}),
      1 + Cardinality({j \in 1..(i - 1) : \A k \in j..(i - 1) : src[k] # "\n"})>>

TokenPos(t) == <<tokens[t].line, tokens[t].col>>

TokenStart(t) == IndexOf(source, tokens[t].line, tokens[t].col)

\* the tokens of the given types at a position
TokensAt(pos, types) ==
    {t \in 1..Len(tokens) : TokenPos(t) = pos /\ tokens[t].type \in types}

TokensOf(types) == {t \in 1..Len(tokens) : tokens[t].type \in types}

\* the nodes of an expression
RECURSIVE ExprNodesOf(_)
ExprNodesOf(e) ==
    IF e.kind = "BinaryOp" THEN {e} \cup ExprNodesOf(e.left) \cup ExprNodesOf(e.right)
    ELSE {e}

StmtNodes == {Walk(ast.statements)[k] : k \in 1..Len(Walk(ast.statements))}

ExprNodes == UNION {ExprNodesOf(OwnExpr(s)) : s \in StmtNodes}

NodesOf(nodes, kind) == {n \in nodes : n.kind = kind}

\* C28: when tokenize has returned, every token but the end-of-input one is
\* at the line and column of an index of the text where its characters
\* stand, after the token before it; and in a parsed program every node is at the position of its token:
\* an assignment at its identifier (followed by '='), an if and an out at
\* their keyword, a binary operation at its operator, a literal and a
\* variable at their own token, one node for each such token.
C28_PositionsOfTokensAndNodes ==
    /\ pc = "parse" =>
          \A t \in 1..(Len(tokens) - 1) :
              /\ \E i \in 1..Len(source) : PosOf(source, i) = TokenPos(t)
              /\ SubSeq(source, TokenStart(t), TokenStart(t) + Len(tokens[t].value) - 1)
                    = tokens[t].value
              /\ t > 1 => TokenStart(t) >= TokenStart(t - 1) + Len(tokens[t - 1].value)
    /\ pc = "construct" =>
          /\ \A s \in StmtNodes :
                CASE s.kind = "Assignment" ->
                        \E t \in TokensAt(<<s.line, s.col>>, {"IDENTIFIER"}) :
                            tokens[t].value = s.varName /\ tokens[t + 1].type = "ASSIGN"
                  [] s.kind = "If"  -> TokensAt(<<s.line, s.col>>, {"IF"}) # {}
                  [] s.kind = "Out" -> TokensAt(<<s.line, s.col>>, {"OUT"}) # {}
          /\ \A e \in ExprNodes :
                CASE e.kind = "BinaryOp" ->
                        \E t \in TokensAt(<<e.line, e.col>>, OperatorTypes) :
                            tokens[t].value = e.opStr
                  [] e.kind = "IntLiteral" ->
                        \E t \in TokensAt(<<e.line, e.col>>, {"INT_LITERAL"}) :
                            StoLL(tokens[t].value).value = e.value
                  [] e.kind = "Variable" ->
                        \E t \in TokensAt(<<e.line, e.col>>, {"IDENTIFIER"}) :
                            tokens[t].value = e.name
          /\ Cardinality(NodesOf(StmtNodes, "If")) = Cardinality(TokensOf({"IF"}))
          /\ Cardinality(NodesOf(StmtNodes, "Out")) = Cardinality(TokensOf({"OUT"}))
          /\ Cardinality(NodesOf(StmtNodes, "Assignment"))
                = Cardinality(TokensOf({"ASSIGN"}))
          /\ Cardinality(NodesOf(ExprNodes, "BinaryOp"))
                = Cardinality(TokensOf(OperatorTypes))
          /\ Cardinality(NodesOf(ExprNodes, "IntLiteral"))
                = Cardinality(TokensOf({"INT_LITERAL"}))
          /\ Cardinality(NodesOf(ExprNodes, "Variable"))
                   + Cardinality(NodesOf(StmtNodes, "Assignment"))
                = Cardinality(TokensOf({"IDENTIFIER"}))

\* a program over several lines, with comments and indentation, is parsed:
\* an if on a later line, a binary operation and an out not at column 1
C28_SeveralLinesParsed ==
    /\ pc = "construct"
    /\ \E s \in NodesOf(StmtNodes, "If") : s.line > 1 /\ s.body # <<>>
    /\ \E s \in NodesOf(StmtNodes, "Out") : s.line > 1 /\ s.col > 1
    /\ \E e \in NodesOf(ExprNodes, "BinaryOp") : e.line > 1 /\ e.col > 1
    /\ \E i \in 1..(Len(source) - 1) : source[i] = "/" /\ source[i + 1] = "/"

====
